---- MODULE Spec2Model ----
(***************************************************************************)
(* State-machine model of the resofleur client reconciliation layer:       *)
(*   - useResolumeConnection  (connection monitor, polling with backoff)   *)
(*   - useResolumeClips       (clip state reconciler)                      *)
(*   - useResolumeControls    (debounced parameter controller)             *)
(*   - ResolumeApiClient      (request cache, range validation)            *)
(* JavaScript is single threaded: every action below is one macrotask      *)
(* (an event handler, a timer callback, or the continuation of an awaited   *)
(* network request together with the microtasks it triggers).              *)
(***************************************************************************)
EXTENDS Integers, Sequences, FiniteSets, TLC

\* ------------------------------------------------------------------------
\* Bounds of the model
\* ------------------------------------------------------------------------
\* the setTimeout calls of the polling chain are counted up to MaxSched + 1
MaxSched == 3
\* number of status checks started by retryConnection that may be in flight
MaxRetryInFlight == 1

\* layers 1..NLayers of the composition are modelled (LayerIndex is 1..4)
NLayers == 2
\* the engine holds MaxClips clips in layer 1 and one clip less in each next layer
MaxClips == 2
\* triggerClip is called with clip indexes 1..MaxClipIndex (ClipIndex is 1..9)
MaxClipIndex == 3
\* network requests of the clip reconciler that may be in flight together
MaxRequests == 1
\* delayed refetch timers that may be pending together
MaxDelayed == 1
\* steps the user and the surroundings of a hook take in one run
\* (calls of the hook's operations, new props, changes inside the engine)
MaxOps == 3
\* the debounce delay is cut into Slices steps of the clock
Slices == 2
\* configurations the backend stores at most
MaxConfigs == 2
\* sessions the backend issues (access tokens 1..MaxTokens)
MaxTokens == 2

\* ------------------------------------------------------------------------
\* Generic helpers
\* ------------------------------------------------------------------------
Null == "null"

Min(a, b) == IF a <= b THEN a ELSE b

\* Time is counted in quarter milliseconds, so that every product of the
\* backoff multiplier 1.5 below the ceiling is an integer.
Ms(n) == 4 * n

\* err instanceof Error ? err.message : fallback
ErrMessage(err, fallback) == IF err.isError THEN err.message ELSE fallback

\* The errors a call of the API client can reject with: ResolumeApiError for
\* a non-2xx response (with its status code) and the TypeError of fetch().
HttpError(status, text) ==
  [isError |-> TRUE, message |-> text, statusCode |-> status]

NetworkError == [isError |-> TRUE, message |-> "Failed to fetch", statusCode |-> 0]

ApiErrors == { HttpError(500, "HTTP 500: Internal Server Error"), NetworkError }

\* ------------------------------------------------------------------------
\* useResolumeConnection
\* ------------------------------------------------------------------------
INITIAL_INTERVAL == 2000
MAX_INTERVAL == 30000
SUCCESS_INTERVAL == 5000
\* BACKOFF_MULTIPLIER 1.5 = BACKOFF_NUM / BACKOFF_DEN
BACKOFF_NUM == 3
BACKOFF_DEN == 2

VARIABLES
  conn_isConnected,     \* useState isConnected
  conn_status,          \* useState connectionStatus: << >> for null, else << snapshot >>
  conn_isLoading,       \* useState isLoading
  conn_error,           \* useState error (Null or a message)
  pollingInterval,      \* pollingIntervalRef.current, quarter ms
  conn_timer,           \* the timer behind timeoutRef.current
  conn_isMounted,       \* isMountedRef.current
  conn_inflight,        \* status requests in flight, per caller
  conn_nsched,          \* history: number of setTimeout calls so far (saturating)
  conn_onlyFailed,      \* history: every check completed so far has failed
  conn_retried,         \* history: retryConnection was invoked
  ev                    \* the step just taken

connVars == << conn_isConnected, conn_status, conn_isLoading, conn_error,
               pollingInterval, conn_timer, conn_isMounted, conn_inflight,
               conn_nsched, conn_onlyFailed, conn_retried >>

VARIABLES
  layerIndex,           \* prop layerIndex of useResolumeClips
  isConnected,          \* prop isConnected of useResolumeClips
  clips,                \* useState clips
  activeClipId,         \* useState activeClipId (None for null)
  activeClipIndex,      \* useState activeClipIndex (None for null)
  selectedClipIndex,    \* useState selectedClipIndex (None for null)
  clips_isLoading,      \* useState isLoading
  clips_error,          \* useState error (Null or a message)
  clips_isMounted,      \* isMountedRef.current
  refreshTimer,         \* the interval behind refreshTimerRef.current
  delayed,              \* pending setTimeout refetches of triggerClip / clearLayer
  requests,             \* network requests in flight
  requestCache,         \* ResolumeApiClient.requestCache, per clip-list URL
  engine,               \* the visuals engine: connected clip slots per layer
  opsLeft               \* steps left to the user and the surroundings

clipVars == << layerIndex, isConnected, clips, activeClipId, activeClipIndex,
               selectedClipIndex, clips_isLoading, clips_error, clips_isMounted,
               refreshTimer, delayed, requests, requestCache, engine, opsLeft >>

VARIABLES
  ctl_props,            \* options of useResolumeControls as last rendered
  bpm,                  \* useState bpm
  opacity,              \* useState opacity (UI domain 0..100)
  scrubPosition,        \* useState scrubPosition (thousandths)
  ctl_error,            \* useState error (Null or a message)
  isBpmLoading,         \* useState isBpmLoading
  isOpacityLoading,     \* useState isOpacityLoading
  isScrubbing,          \* useState isScrubbing
  ctl_isMounted,        \* isMountedRef.current
  ctl_timers,           \* pending debounce timers with the values they captured
  ctl_writes,           \* parameter writes in flight, in the order of issue
  ctl_overtaken,        \* history: per write in flight, a later write of its
                        \* control with another value has been answered 2xx
  ctl_reads,            \* runs of fetchInitialValues awaiting a response
  ctl_burst,            \* history: per control, the latest calls not 150 ms apart
  ctl_log,              \* history: per control, writes sent since its last call
  ctl_opsLeft           \* steps left to the user and the surroundings

ctlVars == << ctl_props, bpm, opacity, scrubPosition, ctl_error, isBpmLoading,
              isOpacityLoading, isScrubbing, ctl_isMounted, ctl_timers,
              ctl_writes, ctl_overtaken, ctl_reads, ctl_burst, ctl_log, ctl_opsLeft >>

VARIABLES
  api_calls,            \* calls of ResolumeApiClient.request awaiting fetch()
  api_last,             \* history: per GET endpoint, its latest call
  api_stored,           \* history: per GET endpoint, the payload of the latest 2xx
  api_left              \* calls of the client its users still make

VARIABLES
  cfg_backend,          \* the configurations the backend stores
  cfg_cache,            \* requestCache entries of the status and the config GET
  cfg_calls,            \* configuration and status requests awaiting fetch()
  cfg_panel,            \* React state of SettingsPanel
  cfg_open,             \* the panel is on screen
  cfg_timers,           \* pending timers of the panel's handlers
  cfg_activated,        \* history: no status call since an activation succeeded
  cfg_left              \* steps left to the user and the connection monitor

cfgVars == << cfg_backend, cfg_cache, cfg_calls, cfg_panel, cfg_open, cfg_timers,
              cfg_activated, cfg_left >>

\* AuthContext
VARIABLES
  auth_user,       \* user of AuthProvider (Null, or the role the backend reported)
  auth_tokens,     \* tokens of AuthProvider: None, or the access token
  auth_isLoading,  \* isLoading of AuthProvider
  auth_error,      \* error of AuthProvider
  auth_stored,     \* localStorage['resofleur_auth']: << >> or << [token, user] >>
  auth_calls,      \* requests of /api/auth awaiting fetch()
  auth_issued,     \* the access tokens the backend has issued so far
  auth_loggedOut,  \* logout has run and no login or register has succeeded since
  auth_left        \* calls of the context the user may still make

authVars == << auth_user, auth_tokens, auth_isLoading, auth_error, auth_stored,
               auth_calls, auth_issued, auth_loggedOut, auth_left >>

apiVars == << api_calls, api_last, api_stored, api_left, cfgVars, authVars >>

vars == << connVars, clipVars, ctlVars, apiVars, ev >>

\* ------------------------------------------------------------------------
\* Types and constants of the clip reconciler and of the API client
\* ------------------------------------------------------------------------
\* null of a numeric id or index (ids and indexes are positive)
None == 0

Layers == 1..NLayers

ClipIndexes == 1..MaxClipIndex

\* ResolumeApiClient.cacheTTL
cacheTTL == 1000
\* autoRefreshInterval of useResolumeClips
AUTO_REFRESH_INTERVAL == 3000
\* delay of the refetch after a successful triggerClip
TRIGGER_REFETCH_DELAY == 500
\* delay of the refetch after a successful clearLayer
CLEAR_REFETCH_DELAY == 300


\* requestCache holds no entry for a key
NoEntry == [present |-> FALSE, age |-> 0, data |-> << >>]

NoInterval == [on |-> FALSE, remaining |-> 0, layer |-> 1]

\* the clip reconciler as constructed, before any effect has acted
ClipsHookInit ==
  /\ layerIndex = 1
  /\ isConnected = FALSE
  /\ clips = << >>
  /\ activeClipId = None
  /\ activeClipIndex = None
  /\ selectedClipIndex = None
  /\ clips_isLoading = FALSE
  /\ clips_error = Null
  /\ clips_isMounted = TRUE
  /\ refreshTimer = NoInterval
  /\ delayed = {}
  /\ requests = {}
  /\ requestCache = [l \in Layers |-> NoEntry]
  /\ opsLeft = MaxOps

\* the clip reconciler left alone
ClipsIdle == ClipsHookInit /\ engine = [l \in Layers |-> {}]

\* ------------------------------------------------------------------------
\* Types and constants of the parameter controller
\* ------------------------------------------------------------------------
\* Debounce delay for slider controls (milliseconds)
DEBOUNCE_DELAY == 150

Controls == {"bpm", "opacity", "scrub"}

\* Numbers with a fractional part (wire opacity, clip position, the values the
\* backend reports) are held in thousandths: Fixed(n, d) stands for n / d.
Fixed(n, d) == (1000 * n) \div d

\* the parameter controller as constructed (Dashboard mounts it disconnected,
\* on layer 1, with no active clip)
CtlHookInit ==
  /\ ctl_props = [layerIndex |-> 1, isConnected |-> FALSE,
                  activeClipId |-> None, activeClipIndex |-> None]
  /\ bpm = 120
  /\ opacity = 100
  /\ scrubPosition = Fixed(0, 1)
  /\ ctl_error = Null
  /\ isBpmLoading = FALSE
  /\ isOpacityLoading = FALSE
  /\ isScrubbing = FALSE
  /\ ctl_isMounted = TRUE
  /\ ctl_timers = {}
  /\ ctl_writes = << >>
  /\ ctl_overtaken = << >>
  /\ ctl_reads = << >>
  /\ ctl_burst = [c \in Controls |-> << >>]
  /\ ctl_log = [c \in Controls |-> << >>]
  /\ ctl_opsLeft = MaxOps

\* the parameter controller left alone
CtlIdle == CtlHookInit

\* no call of the endpoint has been made
NoCall == [called |-> FALSE, since |-> 0, net |-> FALSE]

\* the clip and parameter endpoints of the API client unused
ApiUnused ==
  /\ api_calls = << >>
  /\ api_last = [l \in Layers |-> NoCall]
  /\ api_stored = [l \in Layers |-> << >>]
  /\ api_left = MaxOps

\* ------------------------------------------------------------------------
\* SettingsPanel and the configuration calls of ResolumeApiClient: the cache
\* keys of GET /api/resolume/status and GET /api/resolume/config
\* ------------------------------------------------------------------------
ConfigIds == 1..MaxConfigs

\* this.baseUrl
BaseUrl == << "backend" >>

\* '/api/resolume/status' and '/api/resolume/config', one element per path
\* segment (no endpoint of the client is a partial segment of another)
StatusPath == << "api", "resolume", "status" >>

ConfigPath == << "api", "resolume", "config" >>

\* `${options.method || 'GET'}_${url}` with url = `${this.baseUrl}${endpoint}`
CacheKey(method, path) == << method >> \o BaseUrl \o path

StatusKey == CacheKey("GET", StatusPath)

ConfigKey == CacheKey("GET", ConfigPath)

CfgKeys == { StatusKey, ConfigKey }

\* key.includes(endpoint)
Includes(key, endpoint) ==
  \E i \in 0..(Len(key) - Len(endpoint)) :
     SubSeq(key, i + 1, i + Len(endpoint)) = endpoint

\* invalidateCache(endpoint), lines 229-237
InvalidateCache(cache, endpoint) ==
  [k \in DOMAIN cache |-> IF Includes(k, endpoint) THEN NoEntry ELSE cache[k]]

\* what the backend stores: the saved configurations and the active one
Backends ==
  { [ids |-> S, active |-> a] : S \in SUBSET ConfigIds, a \in ConfigIds \cup {None} }

\* body of GET /api/resolume/config
ConfigsBody(be) == [ids |-> be.ids, active |-> be.active]

\* body of GET /api/resolume/status
StatusBody(be) == [connected |-> be.active # None, config |-> be.active]

\* the useState initial values of SettingsPanel
PanelInit ==
  [configs |-> ConfigsBody([ids |-> {}, active |-> None]), isLoading |-> FALSE,
   isSaving |-> FALSE, error |-> Null, successMessage |-> Null]

\* requests of the configuration endpoints awaiting fetch()
CfgCall(kind, id, after) == [kind |-> kind, id |-> id, after |-> after]

\* the settings panel closed, the configuration endpoints unused
CfgIdle ==
  /\ cfg_backend = [ids |-> {}, active |-> None]
  /\ cfg_cache = [k \in CfgKeys |-> NoEntry]
  /\ cfg_calls = << >>
  /\ cfg_panel = PanelInit
  /\ cfg_open = FALSE
  /\ cfg_timers = {}
  /\ cfg_activated = FALSE
  /\ cfg_left = MaxOps


\* AuthProvider as constructed with nothing persisted, and left alone
AuthIdle ==
  /\ auth_user = Null
  /\ auth_tokens = None
  /\ auth_isLoading = TRUE
  /\ auth_error = Null
  /\ auth_stored = << >>
  /\ auth_calls = << >>
  /\ auth_issued = 0
  /\ auth_loggedOut = FALSE
  /\ auth_left = MaxOps

\* the API client called by nobody but the hooks
ApiIdle == ApiUnused /\ CfgIdle /\ AuthIdle

\* who called checkConnection: the mount effect, the timer callback of
\* scheduleNextCheck, or retryConnection
Origins == {"initial", "timer", "retry"}

InFlightTotal(f) == f["initial"] + f["timer"] + f["retry"]

\* mutant: the ceiling MAX_INTERVAL is not applied
Backoff_Uncapped(interval) == (interval * BACKOFF_NUM) \div BACKOFF_DEN

\* mutant: the ceiling is applied one step late
Backoff_LateCeiling(interval) ==
  IF interval >= Ms(MAX_INTERVAL)
    THEN Ms(MAX_INTERVAL)
    ELSE (interval * BACKOFF_NUM) \div BACKOFF_DEN

\* Math.min(pollingIntervalRef.current * BACKOFF_MULTIPLIER, MAX_INTERVAL)
Backoff(interval) ==
  IF interval * BACKOFF_NUM >= Ms(MAX_INTERVAL) * BACKOFF_DEN
    THEN Ms(MAX_INTERVAL)
    ELSE (interval * BACKOFF_NUM) \div BACKOFF_DEN

\* timeoutRef.current = setTimeout(..., pollingIntervalRef.current)
ScheduleNextCheck(interval) == [state |-> "pending", delay |-> interval]

\* mutant: the pending timer is left running
ClearTimeout_Noop(t) == t

\* if (timeoutRef.current) clearTimeout(timeoutRef.current): a timer that has
\* fired already is not affected
ClearTimeout(t) == IF t.state = "pending" THEN [t EXCEPT !.state = "cleared"] ELSE t

\* the state after the first run of the polling effect
ConnInit ==
  /\ conn_isConnected = FALSE
  /\ conn_status = << >>
  /\ conn_isLoading = TRUE
  /\ conn_error = Null
  /\ pollingInterval = Ms(INITIAL_INTERVAL)
  /\ conn_isMounted = TRUE
  /\ conn_inflight = [o \in Origins |-> IF o = "initial" THEN 1 ELSE 0]
  /\ conn_timer = ScheduleNextCheck(Ms(INITIAL_INTERVAL))
  /\ conn_nsched = 1
  /\ conn_onlyFailed = TRUE
  /\ conn_retried = FALSE

\* mutant: the chained check does not reschedule
ConnChain_Never(origin, interval) == UNCHANGED << conn_timer, conn_nsched >>

\* what a completed check of the chain does next: .then(scheduleNextCheck)
ConnChain(origin, interval) ==
  IF origin = "timer"
    THEN /\ conn_timer' = ScheduleNextCheck(interval)
         /\ conn_nsched' = Min(conn_nsched + 1, MaxSched + 1)
    ELSE UNCHANGED << conn_timer, conn_nsched >>

\* mutant: every status that comes back resets the interval
IntervalAfterStatus_Always(status, interval) == Ms(SUCCESS_INTERVAL)

\* the interval after a status that came back without error
IntervalAfterStatus(status, interval) ==
  IF status.connected THEN Ms(SUCCESS_INTERVAL) ELSE interval

\* mutant: the continuations of checkConnection do not look at the flag
ConnMounted_Always == TRUE

\* isMountedRef.current as read after the await of checkConnection
ConnMounted == conn_isMounted

\* checkConnection, try branch: the status request returned `status`
ConnCheckOk(origin, status) ==
  /\ conn_inflight[origin] > 0
  /\ conn_inflight' = [conn_inflight EXCEPT ![origin] = @ - 1]
  /\ IF ConnMounted
       THEN /\ conn_status' = << status >>
            /\ conn_isConnected' = status.connected
            /\ conn_error' = Null
            /\ pollingInterval' = IntervalAfterStatus(status, pollingInterval)
            /\ conn_isLoading' = FALSE
       ELSE UNCHANGED << conn_status, conn_isConnected, conn_error,
                         pollingInterval, conn_isLoading >>
  /\ ConnChain(origin, pollingInterval')
  /\ conn_onlyFailed' = FALSE
  /\ ev' = [type |-> "checkOk", origin |-> origin, status |-> status]
  /\ UNCHANGED << conn_isMounted, conn_retried >>
  /\ UNCHANGED << clipVars, ctlVars, apiVars >>

\* checkConnection, catch branch: the status request rejected with `err`
ConnCheckFail(origin, err) ==
  /\ conn_inflight[origin] > 0
  /\ conn_inflight' = [conn_inflight EXCEPT ![origin] = @ - 1]
  /\ IF ConnMounted
       THEN /\ conn_error' = ErrMessage(err, "Connection failed")
            /\ conn_isConnected' = FALSE
            /\ pollingInterval' = Backoff(pollingInterval)
            /\ conn_isLoading' = FALSE
       ELSE UNCHANGED << conn_error, conn_isConnected, pollingInterval, conn_isLoading >>
  /\ ConnChain(origin, pollingInterval')
  /\ UNCHANGED conn_onlyFailed
  /\ ev' = [type |-> "checkFail", origin |-> origin, err |-> err]
  /\ UNCHANGED << conn_status, conn_isMounted, conn_retried >>
  /\ UNCHANGED << clipVars, ctlVars, apiVars >>

\* the timer callback of scheduleNextCheck: checkConnection().then(...)
ConnTimerFire ==
  /\ conn_timer.state = "pending"
  /\ conn_timer' = [conn_timer EXCEPT !.state = "fired"]
  /\ conn_inflight' = [conn_inflight EXCEPT !["timer"] = @ + 1]
  /\ ev' = [type |-> "timerFire"]
  /\ UNCHANGED << conn_isConnected, conn_status, conn_isLoading, conn_error,
                  pollingInterval, conn_isMounted, conn_nsched, conn_onlyFailed,
                  conn_retried >>
  /\ UNCHANGED << clipVars, ctlVars, apiVars >>

\* retryConnection
RetryConnection ==
  /\ conn_isMounted
  /\ conn_inflight["retry"] < MaxRetryInFlight
  /\ pollingInterval' = Ms(INITIAL_INTERVAL)
  /\ conn_timer' = ClearTimeout(conn_timer)
  /\ conn_inflight' = [conn_inflight EXCEPT !["retry"] = @ + 1]
  /\ conn_retried' = TRUE
  /\ ev' = [type |-> "retry"]
  /\ UNCHANGED << conn_isConnected, conn_status, conn_isLoading, conn_error,
                  conn_isMounted, conn_nsched, conn_onlyFailed >>
  /\ UNCHANGED << clipVars, ctlVars, apiVars >>

\* cleanup of the polling effect
ConnUnmount ==
  /\ conn_isMounted
  /\ conn_isMounted' = FALSE
  /\ conn_timer' = ClearTimeout(conn_timer)
  /\ ev' = [type |-> "unmount"]
  /\ UNCHANGED << conn_isConnected, conn_status, conn_isLoading, conn_error,
                  pollingInterval, conn_inflight, conn_nsched, conn_onlyFailed,
                  conn_retried >>
  /\ UNCHANGED << clipVars, ctlVars, apiVars >>

StatusSnapshots == { [connected |-> c] : c \in BOOLEAN }

ConnCheckOkAny == \E o \in Origins, s \in StatusSnapshots : ConnCheckOk(o, s)

ConnCheckFailAny == \E o \in Origins, e \in ApiErrors : ConnCheckFail(o, e)

InitConn == ConnInit /\ ClipsIdle /\ CtlIdle /\ ApiIdle /\ ev = [type |-> "mount"]

NextConn ==
  \/ ConnCheckOkAny
  \/ ConnCheckFailAny
  \/ ConnTimerFire
  \/ RetryConnection
  \/ ConnUnmount

SpecConn == InitConn /\ [][NextConn]_vars

\* The monitor while it stays mounted and retryConnection is not invoked.
\* Timers fire and requests settle: the event loop runs every due timer
\* callback and every continuation of a settled request.
NextConnPoll ==
  \/ ConnCheckOkAny
  \/ ConnCheckFailAny
  \/ ConnTimerFire

SpecConnPoll ==
  /\ InitConn
  /\ [][NextConnPoll]_vars
  /\ WF_vars(ConnTimerFire)
  /\ WF_vars(ConnCheckOkAny \/ ConnCheckFailAny)


\* ------------------------------------------------------------------------
\* The visuals engine and ResolumeApiClient.request for the clip-list URL
\* ------------------------------------------------------------------------
\* number of clips the engine holds in layer l
EngLen(l) == IF MaxClips - (l - 1) > 0 THEN MaxClips - (l - 1) ELSE 0

\* ids the engine gives its clips
ClipId(l, i) == 10 * l + i

\* body of GET /api/resolume/composition/layers/{l}/clips
ClipsResponse(l) ==
  [i \in 1..EngLen(l) |-> [id |-> ClipId(l, i), isConnected |-> (i \in engine[l])]]

\* mutant: an entry is served up to and including the age cacheTTL
CacheFresh_Inclusive(entry) == entry.present /\ entry.age <= cacheTTL

\* cached && Date.now() - cached.timestamp < this.cacheTTL
CacheFresh(entry) == entry.present /\ entry.age < cacheTTL

\* this.requestCache.set(cacheKey, { data, timestamp: Date.now() })
CacheStore(cache, l, data) ==
  [cache EXCEPT ![l] = [present |-> TRUE, age |-> 0, data |-> data]]

\* errors of the clip-list GET: the layer is absent, or the backend fails
FetchErrors == { HttpError(404, "HTTP 404: Not Found"),
                 HttpError(500, "HTTP 500: Internal Server Error") }

\* ------------------------------------------------------------------------
\* useResolumeClips
\* ------------------------------------------------------------------------
\* the React state of the hook as one record
HookState ==
  [clips |-> clips, activeClipId |-> activeClipId, activeClipIndex |-> activeClipIndex,
   selectedClipIndex |-> selectedClipIndex, isLoading |-> clips_isLoading,
   error |-> clips_error]

SetHook(s) ==
  /\ clips' = s.clips
  /\ activeClipId' = s.activeClipId
  /\ activeClipIndex' = s.activeClipIndex
  /\ selectedClipIndex' = s.selectedClipIndex
  /\ clips_isLoading' = s.isLoading
  /\ clips_error' = s.error

\* mutant: the last connected clip is taken
FirstConnected_Last(data) ==
  IF \E i \in 1..Len(data) : data[i].isConnected
    THEN CHOOSE i \in 1..Len(data) :
           /\ data[i].isConnected
           /\ \A j \in (i + 1)..Len(data) : ~data[j].isConnected
    ELSE None

\* clipsData.findIndex(clip => clip.isConnected) + 1, None when there is none
FirstConnected(data) ==
  IF \E i \in 1..Len(data) : data[i].isConnected
    THEN CHOOSE i \in 1..Len(data) :
           /\ data[i].isConnected
           /\ \A j \in 1..(i - 1) : ~data[j].isConnected
    ELSE None

\* fetchClips after the await, mounted: lines 74-89 and the finally block
ApplyClips(s, data) ==
  LET idx == FirstConnected(data) IN
  IF idx # None
    THEN [s EXCEPT !.clips = data, !.activeClipId = data[idx].id,
                   !.activeClipIndex = idx, !.selectedClipIndex = idx,
                   !.isLoading = FALSE]
    ELSE [s EXCEPT !.clips = data, !.activeClipId = None,
                   !.activeClipIndex = None, !.isLoading = FALSE]

\* `Layer ${layerIndex} not found in Resolume composition`
LayerNotFound(l) ==
  CASE l = 1 -> "Layer 1 not found in Resolume composition"
    [] l = 2 -> "Layer 2 not found in Resolume composition"
    [] l = 3 -> "Layer 3 not found in Resolume composition"
    [] OTHER -> "Layer 4 not found in Resolume composition"

\* fetchClips, catch branch, mounted: lines 93-101 and the finally block
ApplyFetchError(s, err, l) ==
  IF err.statusCode = 404
    THEN [s EXCEPT !.clips = << >>, !.error = LayerNotFound(l), !.isLoading = FALSE]
    ELSE [s EXCEPT !.error = ErrMessage(err, "Failed to fetch clips"),
                   !.isLoading = FALSE]

\* requests in flight: the GET of the clip list of a layer, a connect call, a
\* clear call
ClipsRequest(l) == [kind |-> "clips", layer |-> l, k |-> None]

TriggerRequest(l, k) == [kind |-> "trigger", layer |-> l, k |-> k]

ClearRequest(l) == [kind |-> "clear", layer |-> l, k |-> None]

\* fetchClips() of the render with layerIndex = l and isConnected = conn, up
\* to its await: a cache hit resolves within the same task, otherwise the GET
\* goes to the network.  st is the React state afterwards.
FetchClips(s, l, conn, mounted, cache) ==
  IF ~conn
    THEN [st |-> [s EXCEPT !.clips = << >>], issued |-> {}, served |-> "none"]
    ELSE LET loading == [s EXCEPT !.isLoading = TRUE, !.error = Null] IN
         IF CacheFresh(cache[l])
           THEN [st |-> IF mounted THEN ApplyClips(loading, cache[l].data) ELSE loading,
                 issued |-> {}, served |-> "cache"]
           ELSE [st |-> loading, issued |-> {ClipsRequest(l)},
                 served |-> "network"]

\* room for the requests a step issues, none of them in flight already
CanIssue(new) ==
  /\ new \cap requests = {}
  /\ Cardinality(requests \cup new) <= MaxRequests

\* history kept in a delayed refetch timer: `old` says that the cache entry
\* of its layer was stored before the trigger / clear call completed
DelayedRefetch(delay, l, cache) ==
  [remaining |-> delay, layer |-> l, old |-> cache[l].present]

\* mutant: a new generic error is thrown in place of the one received
Rethrow_Generic(err) == [isError |-> TRUE, message |-> "Request failed", statusCode |-> 0]

\* throw err
Rethrow(err) == err

\* the network answers a GET of the clip list: request() stores the payload in
\* the cache, then fetchClips applies it if the hook is mounted
FetchOk(r) ==
  /\ r \in requests /\ r.kind = "clips"
  /\ LET data == ClipsResponse(r.layer) IN
     /\ requestCache' = CacheStore(requestCache, r.layer, data)
     /\ IF clips_isMounted
          THEN SetHook(ApplyClips(HookState, data))
          ELSE SetHook(HookState)
  /\ requests' = requests \ {r}
  /\ delayed' = { [t EXCEPT !.old = (t.layer # r.layer /\ @)] : t \in delayed }
  /\ ev' = [type |-> "fetchOk", layer |-> r.layer]
  /\ UNCHANGED << layerIndex, isConnected, clips_isMounted, refreshTimer, engine >>
  /\ UNCHANGED opsLeft
  /\ UNCHANGED << connVars, ctlVars, apiVars >>

\* the GET of the clip list fails: catch branch of fetchClips
FetchFail(r, err) ==
  /\ r \in requests /\ r.kind = "clips"
  /\ IF clips_isMounted
       THEN SetHook(ApplyFetchError(HookState, err, r.layer))
       ELSE SetHook(HookState)
  /\ requests' = requests \ {r}
  /\ ev' = [type |-> "fetchFailed", layer |-> r.layer, err |-> err]
  /\ UNCHANGED << layerIndex, isConnected, clips_isMounted, refreshTimer, delayed,
                  requestCache, engine >>
  /\ UNCHANGED opsLeft
  /\ UNCHANGED << connVars, ctlVars, apiVars >>

\* mutant: index and selection are set also when no clip is cached at k
OptimisticTrigger_Always(s, k) ==
  [s EXCEPT !.activeClipId = IF k <= Len(s.clips) THEN s.clips[k].id ELSE None,
            !.activeClipIndex = k, !.selectedClipIndex = k]

\* the optimistic update of triggerClip, lines 126-131
OptimisticTrigger(s, k) ==
  IF k <= Len(s.clips)
    THEN [s EXCEPT !.activeClipId = s.clips[k].id, !.activeClipIndex = k,
                   !.selectedClipIndex = k]
    ELSE s

\* mutant: the rejection carries the message of a failed fetch
NotConnected_Generic ==
  [isError |-> TRUE, message |-> "Failed to fetch", statusCode |-> 0]

\* new Error('Not connected to Resolume')
NotConnected ==
  [isError |-> TRUE, message |-> "Not connected to Resolume", statusCode |-> 0]

\* triggerClip / clearLayer called while isConnected is false: the throw at
\* the top of the callback, before its try block
RejectOp(op) ==
  /\ clips_isMounted
  /\ ~isConnected
  /\ opsLeft > 0
  /\ opsLeft' = opsLeft - 1
  /\ ev' = [type |-> "opRejected", op |-> op, thrown |-> NotConnected,
            state |-> HookState, requests |-> requests, delayed |-> delayed]
  /\ UNCHANGED << layerIndex, isConnected, clips, activeClipId, activeClipIndex,
                  selectedClipIndex, clips_isLoading, clips_error, clips_isMounted,
                  refreshTimer, delayed, requests, requestCache, engine >>
  /\ UNCHANGED << connVars, ctlVars, apiVars >>

\* triggerClip(k) while connected, up to its await
TriggerClip(k) ==
  /\ clips_isMounted
  /\ isConnected
  /\ CanIssue({TriggerRequest(layerIndex, k)})
  /\ SetHook(OptimisticTrigger(HookState, k))
  /\ requests' = requests \cup {TriggerRequest(layerIndex, k)}
  /\ ev' = [type |-> "trigger", k |-> k, layer |-> layerIndex]
  /\ UNCHANGED << layerIndex, isConnected, clips_isMounted, refreshTimer, delayed,
                  requestCache, engine >>
  /\ opsLeft > 0
  /\ opsLeft' = opsLeft - 1
  /\ UNCHANGED << connVars, ctlVars, apiVars >>

\* mutant: clearLayer leaves the selection alone
OptimisticClear_KeepSelection(s) ==
  [s EXCEPT !.activeClipId = None, !.activeClipIndex = None]

\* the optimistic update of clearLayer, lines 157-159
OptimisticClear(s) ==
  [s EXCEPT !.activeClipId = None, !.activeClipIndex = None, !.selectedClipIndex = None]

\* clearLayer() while connected, up to its await
ClearLayer ==
  /\ clips_isMounted
  /\ isConnected
  /\ CanIssue({ClearRequest(layerIndex)})
  /\ SetHook(OptimisticClear(HookState))
  /\ requests' = requests \cup {ClearRequest(layerIndex)}
  /\ ev' = [type |-> "clear", layer |-> layerIndex]
  /\ UNCHANGED << layerIndex, isConnected, clips_isMounted, refreshTimer, delayed,
                  requestCache, engine >>
  /\ opsLeft > 0
  /\ opsLeft' = opsLeft - 1
  /\ UNCHANGED << connVars, ctlVars, apiVars >>

\* what the engine does with a connect or clear call
EngineApply(r) ==
  [engine EXCEPT ![r.layer] =
     IF r.kind = "trigger" /\ r.k <= EngLen(r.layer) THEN {r.k} ELSE {}]

\* mutant: every refetch is delayed like the one of clearLayer
RefetchDelay_Clear(r) == CLEAR_REFETCH_DELAY

\* delay of the refetch scheduled after the call of r has succeeded
RefetchDelay(r) ==
  IF r.kind = "trigger" THEN TRIGGER_REFETCH_DELAY ELSE CLEAR_REFETCH_DELAY

\* the connect / clear call resolves: the try block goes on to setTimeout
OpOk(r) ==
  /\ r \in requests /\ r.kind \in {"trigger", "clear"}
  /\ Cardinality(delayed) < MaxDelayed
  /\ engine' = EngineApply(r)
  /\ requests' = requests \ {r}
  /\ delayed' = delayed \cup {DelayedRefetch(RefetchDelay(r), r.layer, requestCache)}
  /\ ev' = [type |-> "opOk", kind |-> r.kind, layer |-> r.layer]
  /\ UNCHANGED << layerIndex, isConnected, clips, activeClipId, activeClipIndex,
                  selectedClipIndex, clips_isLoading, clips_error, clips_isMounted,
                  refreshTimer, requestCache >>
  /\ UNCHANGED opsLeft
  /\ UNCHANGED << connVars, ctlVars, apiVars >>

\* the connect / clear call rejects with err: catch { fetchClips(); throw err }
OpFail(r, err) ==
  /\ r \in requests /\ r.kind \in {"trigger", "clear"}
  /\ LET f == FetchClips(HookState, r.layer, TRUE, clips_isMounted, requestCache) IN
     /\ f.issued \cap requests = {}
     /\ SetHook(f.st)
     /\ requests' = (requests \ {r}) \cup f.issued
     /\ ev' = [type |-> "opFailed", kind |-> r.kind, layer |-> r.layer,
               err |-> err, thrown |-> Rethrow(err), served |-> f.served]
  /\ UNCHANGED << layerIndex, isConnected, clips_isMounted, refreshTimer, delayed,
                  requestCache, engine >>
  /\ UNCHANGED opsLeft
  /\ UNCHANGED << connVars, ctlVars, apiVars >>

\* the timer callback of a delayed refetch: if (isMountedRef.current) fetchClips()
DelayedFire(t) ==
  /\ t \in delayed /\ t.remaining = 0
  /\ delayed' = delayed \ {t}
  /\ IF clips_isMounted
       THEN LET f == FetchClips(HookState, t.layer, TRUE, TRUE, requestCache) IN
            /\ CanIssue(f.issued)
            /\ SetHook(f.st)
            /\ requests' = requests \cup f.issued
            /\ ev' = [type |-> "delayedRefetch", layer |-> t.layer,
                      served |-> f.served, stale |-> (f.served = "cache" /\ t.old)]
       ELSE /\ SetHook(HookState)
            /\ UNCHANGED requests
            /\ ev' = [type |-> "delayedSkipped"]
  /\ UNCHANGED << layerIndex, isConnected, clips_isMounted, refreshTimer,
                  requestCache, engine >>
  /\ UNCHANGED opsLeft
  /\ UNCHANGED << connVars, ctlVars, apiVars >>

\* the callback of setInterval(fetchClips, autoRefreshInterval)
RefreshFire ==
  /\ refreshTimer.on /\ refreshTimer.remaining = 0
  /\ refreshTimer' = [refreshTimer EXCEPT !.remaining = AUTO_REFRESH_INTERVAL]
  /\ LET f == FetchClips(HookState, refreshTimer.layer, TRUE, clips_isMounted,
                         requestCache) IN
     /\ CanIssue(f.issued)
     /\ SetHook(f.st)
     /\ requests' = requests \cup f.issued
     /\ ev' = [type |-> "refresh", layer |-> refreshTimer.layer]
  /\ UNCHANGED << layerIndex, isConnected, clips_isMounted, delayed, requestCache, engine >>
  /\ UNCHANGED opsLeft
  /\ UNCHANGED << connVars, ctlVars, apiVars >>

\* mutant: the selection survives a change of layer
LayerEffect_Keep(s, changed) == s

\* the effect on [layerIndex]: setSelectedClipIndex(null)
LayerEffect(s, changed) ==
  IF changed THEN [s EXCEPT !.selectedClipIndex = None] ELSE s

\* a render with new props: the fetch effect is cleaned up and runs again
\* (lines 177-191), the selection is reset if the layer changed (194-196)
Rerender(l, conn) ==
  /\ clips_isMounted
  /\ << l, conn >> # << layerIndex, isConnected >>
  /\ layerIndex' = l
  /\ isConnected' = conn
  /\ clips_isMounted' = TRUE
  /\ refreshTimer' = IF conn
                       THEN [on |-> TRUE, remaining |-> AUTO_REFRESH_INTERVAL, layer |-> l]
                       ELSE NoInterval
  /\ LET reset == LayerEffect(HookState, l # layerIndex)
         f == FetchClips(reset, l, conn, TRUE, requestCache) IN
     /\ CanIssue(f.issued)
     /\ SetHook(f.st)
     /\ requests' = requests \cup f.issued
     /\ ev' = [type |-> "render", from |-> layerIndex, sel |-> selectedClipIndex]
  /\ UNCHANGED << delayed, requestCache, engine >>
  /\ opsLeft > 0
  /\ opsLeft' = opsLeft - 1
  /\ UNCHANGED << connVars, ctlVars, apiVars >>

\* selectClip
SelectClip(i) ==
  /\ clips_isMounted
  /\ selectedClipIndex' = i
  /\ ev' = [type |-> "select"]
  /\ UNCHANGED << layerIndex, isConnected, clips, activeClipId, activeClipIndex,
                  clips_isLoading, clips_error, clips_isMounted, refreshTimer,
                  delayed, requests, requestCache, engine >>
  /\ opsLeft > 0
  /\ opsLeft' = opsLeft - 1
  /\ UNCHANGED << connVars, ctlVars, apiVars >>

\* final unmount: cleanup of the fetch effect
ClipsUnmount ==
  /\ clips_isMounted
  /\ clips_isMounted' = FALSE
  /\ refreshTimer' = NoInterval
  /\ ev' = [type |-> "unmount"]
  /\ UNCHANGED << layerIndex, isConnected, clips, activeClipId, activeClipIndex,
                  selectedClipIndex, clips_isLoading, clips_error, delayed,
                  requests, requestCache, engine >>
  /\ UNCHANGED opsLeft
  /\ UNCHANGED << connVars, ctlVars, apiVars >>

\* somebody else changes what plays in a layer of the engine
EngineChange(l, playing) ==
  /\ playing # engine[l]
  /\ engine' = [engine EXCEPT ![l] = playing]
  /\ ev' = [type |-> "engine"]
  /\ UNCHANGED << layerIndex, isConnected, clips, activeClipId, activeClipIndex,
                  selectedClipIndex, clips_isLoading, clips_error, clips_isMounted,
                  refreshTimer, delayed, requests, requestCache >>
  /\ opsLeft > 0
  /\ opsLeft' = opsLeft - 1
  /\ UNCHANGED << connVars, ctlVars, apiVars >>

\* the times left until something changes with time alone: a timer comes due
\* or a cache entry reaches the TTL
Deadlines ==
  { t.remaining : t \in delayed }
    \cup (IF refreshTimer.on THEN {refreshTimer.remaining} ELSE {})
    \cup { cacheTTL - requestCache[l].age : l \in { x \in Layers : CacheFresh(requestCache[x]) } }

\* the clock advances to the next deadline (events between two deadlines
\* are taken at the earlier one)
TimeSteps == { d \in Deadlines : \A e \in Deadlines : d <= e }

\* d ms pass: no timer is overdue, timers and cache entries grow older
Tick(d) ==
  /\ \A t \in delayed : t.remaining >= d
  /\ refreshTimer.on => refreshTimer.remaining >= d
  /\ delayed' = { [t EXCEPT !.remaining = @ - d] : t \in delayed }
  /\ refreshTimer' = IF refreshTimer.on
                       THEN [refreshTimer EXCEPT !.remaining = @ - d]
                       ELSE refreshTimer
  /\ requestCache' = [l \in Layers |->
        IF requestCache[l].present
          THEN [requestCache[l] EXCEPT !.age = Min(@ + d, cacheTTL)]
          ELSE requestCache[l]]
  /\ << delayed', refreshTimer', requestCache' >> # << delayed, refreshTimer, requestCache >>
  /\ ev' = [type |-> "tick"]
  /\ UNCHANGED << layerIndex, isConnected, clips, activeClipId, activeClipIndex,
                  selectedClipIndex, clips_isLoading, clips_error, clips_isMounted,
                  requests, engine >>
  /\ UNCHANGED opsLeft
  /\ UNCHANGED << connVars, ctlVars, apiVars >>

EngineStates == [Layers -> SUBSET (1..MaxClips)]

InitClips ==
  /\ ClipsHookInit
  /\ engine \in { e \in EngineStates : \A l \in Layers : e[l] \subseteq 1..EngLen(l) }
  /\ ConnInit
  /\ CtlIdle
  /\ ApiIdle
  /\ ev = [type |-> "mount"]

NextClips ==
  \/ \E r \in requests : FetchOk(r)
  \/ \E r \in requests, e \in FetchErrors : FetchFail(r, e)
  \/ \E k \in ClipIndexes : TriggerClip(k)
  \/ ClearLayer
  \/ \E r \in requests : OpOk(r)
  \/ \E r \in requests, e \in ApiErrors : OpFail(r, e)
  \/ \E op \in {"trigger", "clear"} : RejectOp(op)
  \/ \E t \in delayed : DelayedFire(t)
  \/ RefreshFire
  \/ \E l \in Layers, c \in BOOLEAN : Rerender(l, c)
  \/ \E i \in ClipIndexes \cup {None} : SelectClip(i)
  \/ ClipsUnmount
  \/ \E l \in Layers : \E p \in SUBSET (1..EngLen(l)) : EngineChange(l, p)
  \/ \E d \in TimeSteps : Tick(d)

SpecClips == InitClips /\ [][NextClips]_vars

\* ------------------------------------------------------------------------
\* ResolumeApiClient: range validation of the parameter writes
\* ------------------------------------------------------------------------
ValidationError(text) == [isError |-> TRUE, message |-> text, statusCode |-> 0]

\* a check that lets the value through
Passed == [isError |-> FALSE, message |-> "", statusCode |-> 0]

\* mutant: the boundaries 20 and 999 are rejected too
CheckBpm_Exclusive(v) ==
  IF v <= 20 \/ v >= 999
    THEN ValidationError("BPM must be between 20 and 999") ELSE Passed

\* setBpm: if (bpm < 20 || bpm > 999) throw
CheckBpm(v) ==
  IF v < 20 \/ v > 999
    THEN ValidationError("BPM must be between 20 and 999") ELSE Passed

\* setLayerOpacity: if (opacity < 0 || opacity > 1) throw
CheckOpacity(w) ==
  IF w < Fixed(0, 1) \/ w > Fixed(1, 1)
    THEN ValidationError("Opacity must be between 0 and 1") ELSE Passed

\* setClipPosition: if (position < 0 || position > 1) throw
CheckPosition(w) ==
  IF w < Fixed(0, 1) \/ w > Fixed(1, 1)
    THEN ValidationError("Position must be between 0 and 1") ELSE Passed

\* ------------------------------------------------------------------------
\* useResolumeControls
\* ------------------------------------------------------------------------
\* values the sliders and other callers hand to the setters
BpmInputs == {19, 20, 999, 1000}

OpacityInputs == {0, 57, 101}

PositionInputs == {Fixed(0, 1), Fixed(1, 2), Fixed(101, 100)}

\* the positions of the opacity slider
UiOpacities == 0..100

\* values the backend reports for the tempo and for a layer's opacity
BpmResponses == {Fixed(1276, 10)}

OpacityResponses == {Fixed(57, 100)}

\* Math.round of a non-negative number held in thousandths
Round(w) == (w + 500) \div 1000

\* mutant: the UI value is sent as it is
Normalize_Identity(v) == Fixed(v, 1)

\* const normalizedOpacity = value / 100
Normalize(v) == Fixed(v, 100)

\* the value a debounced commit hands to the API client
Wire(c, v) == IF c = "opacity" THEN Normalize(v) ELSE v

\* the range check the API client makes for the write of control c
ClientCheck(c, w) ==
  CASE c = "bpm" -> CheckBpm(w)
    [] c = "opacity" -> CheckOpacity(w)
    [] c = "scrub" -> CheckPosition(w)

\* message used when what was thrown is not an Error
Fallback(c) ==
  CASE c = "bpm" -> "Failed to set BPM"
    [] c = "opacity" -> "Failed to set opacity"
    [] c = "scrub" -> "Failed to scrub clip"

\* setIsBpmLoading / setIsOpacityLoading / setIsScrubbing of control c
SetLoading(c, b) ==
  /\ isBpmLoading' = IF c = "bpm" THEN b ELSE isBpmLoading
  /\ isOpacityLoading' = IF c = "opacity" THEN b ELSE isOpacityLoading
  /\ isScrubbing' = IF c = "scrub" THEN b ELSE isScrubbing

Pending(c) == \E t \in ctl_timers : t.ctl = c

\* mutant: the pending timer of the control is left to run
CtlClearTimeout_Noop(timers, c) == timers

\* if (ref.current) clearTimeout(ref.current): the ref of a control holds the
\* timer of its latest call, every earlier one has fired or was cleared
CtlClearTimeout(timers, c) == { t \in timers : t.ctl # c }

\* ref.current = setTimeout(commit, DEBOUNCE_DELAY), after the clearTimeout
Debounce(c, v, l, k) ==
  /\ ctl_timers' = CtlClearTimeout(ctl_timers, c) \cup
                     { [ctl |-> c, remaining |-> DEBOUNCE_DELAY, value |-> v,
                        layer |-> l, clip |-> k] }
  /\ ctl_burst' = [ctl_burst EXCEPT ![c] =
                     LET call == [value |-> v, layer |-> l, clip |-> k]
                     IN  IF Pending(c) /\ @ # << >>
                           THEN << @[Len(@)], call >> ELSE << call >>]
  /\ ctl_log' = [ctl_log EXCEPT ![c] = << >>]

CtlFlags == << isBpmLoading, isOpacityLoading, isScrubbing >>

\* setBpm(value)
SetBpm(v) ==
  /\ ctl_isMounted /\ ctl_opsLeft > 0
  /\ bpm' = v
  /\ ctl_error' = Null
  /\ Debounce("bpm", v, None, None)
  /\ ctl_opsLeft' = ctl_opsLeft - 1
  /\ ev' = [type |-> "set", ctl |-> "bpm"]
  /\ UNCHANGED << ctl_props, opacity, scrubPosition, CtlFlags, ctl_isMounted,
                  ctl_writes, ctl_overtaken, ctl_reads >>
  /\ UNCHANGED << connVars, clipVars, apiVars >>

\* setOpacity(value), the callback of the render with the current layerIndex
SetOpacity(v) ==
  /\ ctl_isMounted /\ ctl_opsLeft > 0
  /\ opacity' = v
  /\ ctl_error' = Null
  /\ Debounce("opacity", v, ctl_props.layerIndex, None)
  /\ ctl_opsLeft' = ctl_opsLeft - 1
  /\ ev' = [type |-> "set", ctl |-> "opacity"]
  /\ UNCHANGED << ctl_props, bpm, scrubPosition, CtlFlags, ctl_isMounted,
                  ctl_writes, ctl_overtaken, ctl_reads >>
  /\ UNCHANGED << connVars, clipVars, apiVars >>

\* if (!isConnected || !activeClipId || !activeClipIndex) return
ScrubGate(p) ==
  p.isConnected /\ p.activeClipId # None /\ p.activeClipIndex # None

\* setScrubPosition(value), the callback of the render with the current props
SetScrubPosition(v) ==
  /\ ctl_isMounted /\ ctl_opsLeft > 0
  /\ IF ScrubGate(ctl_props)
       THEN /\ scrubPosition' = v
            /\ ctl_error' = Null
            /\ Debounce("scrub", v, ctl_props.layerIndex, ctl_props.activeClipIndex)
            /\ ev' = [type |-> "set", ctl |-> "scrub"]
       ELSE /\ UNCHANGED << scrubPosition, ctl_error, ctl_timers, ctl_burst, ctl_log >>
            /\ ev' = [type |-> "scrubIgnored", ctl |-> "scrub"]
  /\ ctl_opsLeft' = ctl_opsLeft - 1
  /\ UNCHANGED << ctl_props, bpm, opacity, CtlFlags, ctl_isMounted,
                  ctl_writes, ctl_overtaken, ctl_reads >>
  /\ UNCHANGED << connVars, clipVars, apiVars >>

\* the write of a commit as it goes to the network
WriteOf(t) ==
  [ctl |-> t.ctl, value |-> Wire(t.ctl, t.value), layer |-> t.layer, clip |-> t.clip]

\* the callback of a debounce timer: setLoading(true), the call of the API
\* client up to its await, and catch / finally when the range check throws
Commit(t) ==
  /\ t \in ctl_timers /\ t.remaining = 0
  /\ ctl_timers' = ctl_timers \ {t}
  /\ LET chk == ClientCheck(t.ctl, Wire(t.ctl, t.value))
     IN  IF chk.isError
           THEN /\ ctl_error' = ErrMessage(chk, Fallback(t.ctl))
                /\ SetLoading(t.ctl, ~ctl_isMounted)
                /\ UNCHANGED << ctl_writes, ctl_overtaken, ctl_log >>
           ELSE /\ SetLoading(t.ctl, TRUE)
                /\ ctl_writes' = Append(ctl_writes, WriteOf(t))
                /\ ctl_overtaken' = Append(ctl_overtaken, FALSE)
                /\ ctl_log' = [ctl_log EXCEPT ![t.ctl] = Append(@, WriteOf(t))]
                /\ UNCHANGED ctl_error
  /\ ev' = [type |-> "commit", ctl |-> t.ctl,
            thrown |-> ClientCheck(t.ctl, Wire(t.ctl, t.value)),
            vals |-> << bpm, opacity, scrubPosition >>]
  /\ UNCHANGED << ctl_props, bpm, opacity, scrubPosition, ctl_isMounted,
                  ctl_reads, ctl_burst, ctl_opsLeft >>
  /\ UNCHANGED << connVars, clipVars, apiVars >>

RemoveAt(q, i) == [j \in 1..(Len(q) - 1) |-> IF j < i THEN q[j] ELSE q[j + 1]]

\* mutant: the finally block leaves the flag alone
CommitFinally_Never(c) == UNCHANGED CtlFlags

\* finally { if (isMountedRef.current) setLoading(false) }
CommitFinally(c) ==
  IF ctl_isMounted THEN SetLoading(c, FALSE) ELSE UNCHANGED CtlFlags

\* the backend applies a write when it answers it with 2xx: the writes of the
\* same control issued before write i with another value and still in flight
\* have been overtaken
Overtake(i) ==
  [j \in 1..Len(ctl_writes) |->
     ctl_overtaken[j] \/ (/\ j < i
                          /\ ctl_writes[j].ctl = ctl_writes[i].ctl
                          /\ ctl_writes[j].value # ctl_writes[i].value)]

\* the write of a commit is answered with 2xx
WriteOk(i) ==
  /\ i \in 1..Len(ctl_writes)
  /\ ctl_writes' = RemoveAt(ctl_writes, i)
  /\ ctl_overtaken' = RemoveAt(Overtake(i), i)
  /\ CommitFinally(ctl_writes[i].ctl)
  /\ ev' = [type |-> "writeOk", ctl |-> ctl_writes[i].ctl, late |-> ctl_overtaken[i]]
  /\ UNCHANGED << ctl_props, bpm, opacity, scrubPosition, ctl_error, ctl_isMounted,
                  ctl_timers, ctl_reads, ctl_burst, ctl_log, ctl_opsLeft >>
  /\ UNCHANGED << connVars, clipVars, apiVars >>

\* the write of a commit fails: catch { setError(message) } finally { ... }
WriteFail(i, err) ==
  /\ i \in 1..Len(ctl_writes)
  /\ ctl_writes' = RemoveAt(ctl_writes, i)
  /\ ctl_overtaken' = RemoveAt(ctl_overtaken, i)
  /\ ctl_error' = ErrMessage(err, Fallback(ctl_writes[i].ctl))
  /\ CommitFinally(ctl_writes[i].ctl)
  /\ ev' = [type |-> "writeFail", ctl |-> ctl_writes[i].ctl, reads |-> Len(ctl_reads),
            thrown |-> err, vals |-> << bpm, opacity, scrubPosition >>]
  /\ UNCHANGED << ctl_props, bpm, opacity, scrubPosition, ctl_isMounted,
                  ctl_timers, ctl_reads, ctl_burst, ctl_log, ctl_opsLeft >>
  /\ UNCHANGED << connVars, clipVars, apiVars >>

\* the options Dashboard can hand to the hook
CtlProps ==
  [layerIndex : Layers, isConnected : BOOLEAN,
   activeClipId : {None, ClipId(1, 1)}, activeClipIndex : {None, 1}]

\* a render of Dashboard with new options; the effect on [isConnected,
\* layerIndex] starts fetchInitialValues, which returns at once when not
\* connected and otherwise awaits getBpm()
CtlRerender(p) ==
  /\ ctl_isMounted /\ ctl_opsLeft > 0
  /\ p # ctl_props
  /\ ctl_props' = p
  /\ ctl_reads' =
       IF /\ << p.isConnected, p.layerIndex >> #
               << ctl_props.isConnected, ctl_props.layerIndex >>
          /\ p.isConnected
         THEN Append(ctl_reads, [stage |-> "bpm", layer |-> p.layerIndex])
         ELSE ctl_reads
  /\ ctl_opsLeft' = ctl_opsLeft - 1
  /\ ev' = [type |-> "ctlRender"]
  /\ UNCHANGED << bpm, opacity, scrubPosition, ctl_error, CtlFlags, ctl_isMounted,
                  ctl_timers, ctl_writes, ctl_overtaken, ctl_burst, ctl_log >>
  /\ UNCHANGED << connVars, clipVars, apiVars >>

\* fetchInitialValues goes on to await getLayerOpacity(layerIndex)
ReadNext(i) == [ctl_reads EXCEPT ![i].stage = "opacity"]

\* getBpm() answers: setBpmState(Math.round(value)) if mounted
ReadBpmOk(i, w) ==
  /\ i \in 1..Len(ctl_reads) /\ ctl_reads[i].stage = "bpm"
  /\ bpm' = IF ctl_isMounted THEN Round(w) ELSE bpm
  /\ ctl_reads' = ReadNext(i)
  /\ ev' = [type |-> "readOk", ctl |-> "bpm"]
  /\ UNCHANGED << ctl_props, opacity, scrubPosition, ctl_error, CtlFlags,
                  ctl_isMounted, ctl_timers, ctl_writes, ctl_overtaken, ctl_burst, ctl_log,
                  ctl_opsLeft >>
  /\ UNCHANGED << connVars, clipVars, apiVars >>

\* getBpm() fails: the error is logged only
ReadBpmFail(i) ==
  /\ i \in 1..Len(ctl_reads) /\ ctl_reads[i].stage = "bpm"
  /\ ctl_reads' = ReadNext(i)
  /\ ev' = [type |-> "readFail", ctl |-> "bpm"]
  /\ UNCHANGED << ctl_props, bpm, opacity, scrubPosition, ctl_error, CtlFlags,
                  ctl_isMounted, ctl_timers, ctl_writes, ctl_overtaken, ctl_burst, ctl_log,
                  ctl_opsLeft >>
  /\ UNCHANGED << connVars, clipVars, apiVars >>

\* getLayerOpacity() answers: setOpacityState(Math.round(value * 100)) if mounted
ReadOpacityOk(i, w) ==
  /\ i \in 1..Len(ctl_reads) /\ ctl_reads[i].stage = "opacity"
  /\ opacity' = IF ctl_isMounted THEN Round(w * 100) ELSE opacity
  /\ ctl_reads' = RemoveAt(ctl_reads, i)
  /\ ev' = [type |-> "readOk", ctl |-> "opacity"]
  /\ UNCHANGED << ctl_props, bpm, scrubPosition, ctl_error, CtlFlags,
                  ctl_isMounted, ctl_timers, ctl_writes, ctl_overtaken, ctl_burst, ctl_log,
                  ctl_opsLeft >>
  /\ UNCHANGED << connVars, clipVars, apiVars >>

\* getLayerOpacity() fails, with 404 or otherwise: setOpacityState(100) if mounted
ReadOpacityFail(i) ==
  /\ i \in 1..Len(ctl_reads) /\ ctl_reads[i].stage = "opacity"
  /\ opacity' = IF ctl_isMounted THEN 100 ELSE opacity
  /\ ctl_reads' = RemoveAt(ctl_reads, i)
  /\ ev' = [type |-> "readFail", ctl |-> "opacity"]
  /\ UNCHANGED << ctl_props, bpm, scrubPosition, ctl_error, CtlFlags,
                  ctl_isMounted, ctl_timers, ctl_writes, ctl_overtaken, ctl_burst, ctl_log,
                  ctl_opsLeft >>
  /\ UNCHANGED << connVars, clipVars, apiVars >>

\* the cleanup of the mount effect
CtlUnmount ==
  /\ ctl_isMounted
  /\ ctl_isMounted' = FALSE
  /\ ctl_timers' =
       CtlClearTimeout(CtlClearTimeout(CtlClearTimeout(ctl_timers, "bpm"),
                                       "opacity"), "scrub")
  /\ ev' = [type |-> "ctlUnmount"]
  /\ UNCHANGED << ctl_props, bpm, opacity, scrubPosition, ctl_error, CtlFlags,
                  ctl_writes, ctl_overtaken, ctl_reads, ctl_burst, ctl_log, ctl_opsLeft >>
  /\ UNCHANGED << connVars, clipVars, apiVars >>

\* one step of the clock
TickStep == DEBOUNCE_DELAY \div Slices

\* time passes; a timer that is due runs before the clock moves on
CtlTick ==
  /\ ctl_timers # {}
  /\ \A t \in ctl_timers : t.remaining > 0
  /\ ctl_timers' = { [t EXCEPT !.remaining = IF @ > TickStep THEN @ - TickStep ELSE 0]
                       : t \in ctl_timers }
  /\ ev' = [type |-> "ctlTick"]
  /\ UNCHANGED << ctl_props, bpm, opacity, scrubPosition, ctl_error, CtlFlags,
                  ctl_isMounted, ctl_writes, ctl_overtaken, ctl_reads, ctl_burst, ctl_log,
                  ctl_opsLeft >>
  /\ UNCHANGED << connVars, clipVars, apiVars >>

InitCtl ==
  /\ CtlHookInit
  /\ ConnInit
  /\ ClipsIdle
  /\ ApiIdle
  /\ ev = [type |-> "mount"]

NextCtl ==
  \/ \E v \in BpmInputs : SetBpm(v)
  \/ \E v \in OpacityInputs : SetOpacity(v)
  \/ \E v \in PositionInputs : SetScrubPosition(v)
  \/ \E t \in ctl_timers : Commit(t)
  \/ \E i \in 1..Len(ctl_writes) : WriteOk(i)
  \/ \E i \in 1..Len(ctl_writes), e \in ApiErrors : WriteFail(i, e)
  \/ \E p \in CtlProps : CtlRerender(p)
  \/ \E i \in 1..Len(ctl_reads), w \in BpmResponses : ReadBpmOk(i, w)
  \/ \E i \in 1..Len(ctl_reads) : ReadBpmFail(i)
  \/ \E i \in 1..Len(ctl_reads), w \in OpacityResponses : ReadOpacityOk(i, w)
  \/ \E i \in 1..Len(ctl_reads) : ReadOpacityFail(i)
  \/ CtlUnmount
  \/ CtlTick

SpecCtl == InitCtl /\ [][NextCtl]_vars

\* ------------------------------------------------------------------------
\* ResolumeApiClient called directly: request() for the GET of a layer's clip
\* list (one cache key per layer) and the three parameter writes
\* ------------------------------------------------------------------------
\* what the clip reconciler holds besides the cache and the engine
ClipsHookVars == << layerIndex, isConnected, clips, activeClipId, activeClipIndex,
                    selectedClipIndex, clips_isLoading, clips_error,
                    clips_isMounted, refreshTimer, delayed, requests >>

\* values handed to setBpm, and to setLayerOpacity / setClipPosition
WriteInputs(c) ==
  IF c = "bpm" THEN {19, 20, 999, 1000}
               ELSE {Fixed(-1, 100), Fixed(0, 1), Fixed(1, 1), Fixed(101, 100)}

\* a call of request() that has reached fetch()
ApiCall(kind, l, c, w) == [kind |-> kind, key |-> l, ctl |-> c, value |-> w]

\* request(endpoint) without a method, lines 70-90: a fresh cache entry is
\* returned, otherwise fetch() is called; pendingRequests is not consulted
ApiGet(l) ==
  /\ api_left > 0
  /\ api_left' = api_left - 1
  /\ api_calls' = IF CacheFresh(requestCache[l])
                    THEN api_calls
                    ELSE Append(api_calls, ApiCall("get", l, "", 0))
  /\ api_last' = [api_last EXCEPT ![l] =
                    [called |-> TRUE, since |-> 0, net |-> ~CacheFresh(requestCache[l])]]
  /\ ev' = [type |-> "get", key |-> l, prev |-> api_last[l],
            served |-> IF CacheFresh(requestCache[l]) THEN "cache" ELSE "network",
            data |-> IF CacheFresh(requestCache[l])
                       THEN << requestCache[l].data >> ELSE << >>]
  /\ UNCHANGED << requestCache, engine, opsLeft, api_stored >>
  /\ UNCHANGED << ClipsHookVars, connVars, ctlVars, cfgVars, authVars >>

\* fetch() of a GET answers 2xx, lines 106-113: the payload is cached and returned
ApiGetOk(i) ==
  /\ i \in 1..Len(api_calls) /\ api_calls[i].kind = "get"
  /\ LET l == api_calls[i].key IN
     /\ requestCache' = CacheStore(requestCache, l, ClipsResponse(l))
     /\ api_stored' = [api_stored EXCEPT ![l] = << ClipsResponse(l) >>]
     /\ ev' = [type |-> "getOk", key |-> l, data |-> << ClipsResponse(l) >>]
  /\ api_calls' = RemoveAt(api_calls, i)
  /\ UNCHANGED << engine, opsLeft, api_last, api_left >>
  /\ UNCHANGED << ClipsHookVars, connVars, ctlVars, cfgVars, authVars >>

\* statuses of the non-2xx answers of the backend
NonOkStatuses == {404, 500}

\* `HTTP ${response.status}: ${response.statusText}`
StatusLine(status) ==
  IF status = 404 THEN "HTTP 404: Not Found"
                  ELSE "HTTP 500: Internal Server Error"

\* the endpoint argument request() was called with
EndpointOf(call) ==
  [path |-> CASE call.kind = "get" -> "/api/resolume/composition/layers/{layer}/clips"
              [] call.ctl = "bpm" -> "/api/resolume/composition/tempo/bpm?bpm={value}"
              [] call.ctl = "opacity" ->
                   "/api/resolume/composition/layers/{layer}/video/opacity?opacity={value}"
              [] OTHER ->
                   "/api/resolume/composition/layers/{layer}/clips/{clip}/transport/position?position={value}",
   layer |-> call.key, value |-> call.value]

\* new ResolumeApiError(message, statusCode, endpoint)
ResolumeApiError(message, statusCode, endpoint) ==
  [isError |-> TRUE, name |-> "ResolumeApiError", message |-> message,
   statusCode |-> statusCode, endpoint |-> endpoint]

\* mutant: the error is built from the status line alone
RequestError_StatusLineOnly(status, endpoint) ==
  ResolumeApiError(StatusLine(status), 0, [path |-> "", layer |-> 0, value |-> 0])

\* if (!response.ok) throw new ResolumeApiError(...), lines 92-99
RequestError(status, endpoint) ==
  ResolumeApiError(StatusLine(status), status, endpoint)

\* fetch() of a GET answers non-2xx, lines 92-99: the error is thrown before
\* the cache is touched
ApiGetFail(i, status) ==
  /\ i \in 1..Len(api_calls) /\ api_calls[i].kind = "get"
  /\ api_calls' = RemoveAt(api_calls, i)
  /\ ev' = [type |-> "getFailed", key |-> api_calls[i].key, status |-> status,
            call |-> api_calls[i], cache |-> requestCache,
            err |-> RequestError(status, EndpointOf(api_calls[i]))]
  /\ UNCHANGED << requestCache, engine, opsLeft, api_last, api_stored, api_left >>
  /\ UNCHANGED << ClipsHookVars, connVars, ctlVars, cfgVars, authVars >>

\* fetch() of a write answers non-2xx, lines 92-99
ApiWriteFail(i, status) ==
  /\ i \in 1..Len(api_calls) /\ api_calls[i].kind = "write"
  /\ api_calls' = RemoveAt(api_calls, i)
  /\ ev' = [type |-> "writeFailed", key |-> api_calls[i].key, status |-> status,
            call |-> api_calls[i], cache |-> requestCache,
            err |-> RequestError(status, EndpointOf(api_calls[i]))]
  /\ UNCHANGED << requestCache, engine, opsLeft, api_last, api_stored, api_left >>
  /\ UNCHANGED << ClipsHookVars, connVars, ctlVars, cfgVars, authVars >>

\* setBpm / setLayerOpacity / setClipPosition: the range check, then request()
\* with method POST up to fetch()
ApiWrite(c, w) ==
  /\ api_left > 0
  /\ api_left' = api_left - 1
  /\ api_calls' = IF ClientCheck(c, w).isError
                    THEN api_calls
                    ELSE Append(api_calls, ApiCall("write", 0, c, w))
  /\ ev' = [type |-> "apiWrite", ctl |-> c, value |-> w,
            thrown |-> ClientCheck(c, w), sent |-> ~ClientCheck(c, w).isError]
  /\ UNCHANGED << requestCache, engine, opsLeft, api_last, api_stored >>
  /\ UNCHANGED << ClipsHookVars, connVars, ctlVars, cfgVars, authVars >>

\* fetch() of a write answers 2xx; a POST neither reads nor fills the cache
ApiWriteDone(i) ==
  /\ i \in 1..Len(api_calls) /\ api_calls[i].kind = "write"
  /\ api_calls' = RemoveAt(api_calls, i)
  /\ ev' = [type |-> "writeDone", ctl |-> api_calls[i].ctl]
  /\ UNCHANGED << requestCache, engine, opsLeft, api_last, api_stored, api_left >>
  /\ UNCHANGED << ClipsHookVars, connVars, ctlVars, cfgVars, authVars >>

\* one step of the clock of the cache
ApiStep == cacheTTL \div Slices

\* Date.now() moves on: cache entries and the latest calls grow older (ages
\* stop counting at cacheTTL)
ApiTick ==
  /\ requestCache' = [l \in Layers |->
        IF requestCache[l].present
          THEN [requestCache[l] EXCEPT !.age = Min(@ + ApiStep, cacheTTL)]
          ELSE requestCache[l]]
  /\ api_last' = [l \in Layers |->
        IF api_last[l].called
          THEN [api_last[l] EXCEPT !.since = Min(@ + ApiStep, cacheTTL)]
          ELSE api_last[l]]
  /\ << requestCache', api_last' >> # << requestCache, api_last >>
  /\ ev' = [type |-> "tick"]
  /\ UNCHANGED << engine, opsLeft, api_calls, api_stored, api_left >>
  /\ UNCHANGED << ClipsHookVars, connVars, ctlVars, cfgVars, authVars >>

\* what plays in a layer of the engine changes while the client is in use
ApiEngineChange(l, playing) ==
  /\ api_left > 0
  /\ api_left' = api_left - 1
  /\ playing # engine[l]
  /\ engine' = [engine EXCEPT ![l] = playing]
  /\ ev' = [type |-> "engine"]
  /\ UNCHANGED << requestCache, opsLeft, api_calls, api_last, api_stored >>
  /\ UNCHANGED << ClipsHookVars, connVars, ctlVars, cfgVars, authVars >>

InitApi ==
  /\ ApiIdle
  /\ ClipsIdle
  /\ ConnInit
  /\ CtlIdle
  /\ ev = [type |-> "mount"]

NextApi ==
  \/ \E l \in Layers : ApiGet(l)
  \/ \E i \in 1..Len(api_calls) : ApiGetOk(i)
  \/ \E i \in 1..Len(api_calls), st \in NonOkStatuses : ApiGetFail(i, st)
  \/ \E i \in 1..Len(api_calls), st \in NonOkStatuses : ApiWriteFail(i, st)
  \/ \E c \in Controls : \E w \in WriteInputs(c) : ApiWrite(c, w)
  \/ \E i \in 1..Len(api_calls) : ApiWriteDone(i)
  \/ ApiTick
  \/ \E l \in Layers : \E playing \in SUBSET (1..EngLen(l)) : ApiEngineChange(l, playing)

SpecApi == InitApi /\ [][NextApi]_vars

\* ------------------------------------------------------------------------
\* SettingsPanel: handleCreateConfig, handleConfigAction, fetchConfigs
\* ------------------------------------------------------------------------
\* fetchConfigs up to its await, lines 47-51: getConfigurations() returns a
\* fresh cache entry within the same task, otherwise the GET goes to fetch()
FetchConfigs(p, cache) ==
  IF CacheFresh(cache[ConfigKey])
    THEN [st |-> [p EXCEPT !.configs = cache[ConfigKey].data[1], !.error = Null,
                           !.isLoading = FALSE],
          served |-> "cache"]
    ELSE [st |-> [p EXCEPT !.isLoading = TRUE], served |-> "network"]

\* what the awaiting handler does once fetchConfigs has resolved: lines
\* 131-138 of handleCreateConfig, lines 158-163 of handleConfigAction
Continue(p, after) ==
  CASE after = "create" -> [p EXCEPT !.isSaving = FALSE]
    [] after = "action" -> [p EXCEPT !.error = Null, !.isLoading = FALSE]
    [] OTHER -> p

\* timers a handler leaves behind after fetchConfigs
TimersAfter(after) == IF after = "create" THEN {"hide"} ELSE {}

OtherVars ==
  << connVars, clipVars, ctlVars, api_calls, api_last, api_stored, api_left, authVars >>

\* handleCreateConfig up to its await, lines 108-119
HandleCreateConfig(valid) ==
  /\ cfg_open /\ ~cfg_panel.isSaving
  /\ cfg_left > 0
  /\ cfg_left' = cfg_left - 1
  /\ IF valid
       THEN /\ cfg_panel' = [cfg_panel EXCEPT !.isSaving = TRUE, !.error = Null,
                                              !.successMessage = Null]
            /\ cfg_calls' = Append(cfg_calls, CfgCall("create", None, ""))
       ELSE /\ cfg_panel' = [cfg_panel EXCEPT !.error = "Please fill in all required fields"]
            /\ UNCHANGED cfg_calls
  /\ ev' = [type |-> "create", valid |-> valid]
  /\ UNCHANGED << cfg_backend, cfg_cache, cfg_open, cfg_timers, cfg_activated >>
  /\ UNCHANGED OtherVars

\* the id the backend gives a new configuration
NewId(be) == CHOOSE i \in ConfigIds \ be.ids : \A j \in ConfigIds \ be.ids : i <= j

\* the POST answers 2xx: lines 122-129, then fetchConfigs; the backend has
\* stored the configuration and may have made it the active one
CreateOk(i, activated) ==
  /\ i \in 1..Len(cfg_calls) /\ cfg_calls[i].kind = "create"
  /\ cfg_backend.ids # ConfigIds
  /\ cfg_backend' = [ids |-> cfg_backend.ids \cup {NewId(cfg_backend)},
                     active |-> IF activated THEN NewId(cfg_backend)
                                             ELSE cfg_backend.active]
  /\ LET saved == [cfg_panel EXCEPT !.successMessage = "saved and activated"]
         f == FetchConfigs(saved, cfg_cache) IN
     /\ IF f.served = "cache"
          THEN /\ cfg_panel' = Continue(f.st, "create")
               /\ cfg_calls' = RemoveAt(cfg_calls, i)
               /\ cfg_timers' = cfg_timers \cup TimersAfter("create")
          ELSE /\ cfg_panel' = f.st
               /\ cfg_calls' = Append(RemoveAt(cfg_calls, i), CfgCall("list", None, "create"))
               /\ UNCHANGED cfg_timers
     /\ ev' = [type |-> "mutated", kind |-> "create", served |-> f.served,
               before |-> cfg_cache]
  /\ UNCHANGED << cfg_cache, cfg_open, cfg_activated, cfg_left >>
  /\ UNCHANGED OtherVars

\* the POST fails: catch and finally of handleCreateConfig, lines 133-138
CreateFail(i, err) ==
  /\ i \in 1..Len(cfg_calls) /\ cfg_calls[i].kind = "create"
  /\ cfg_panel' = [cfg_panel EXCEPT
                     !.error = ErrMessage(err, "Failed to create configuration"),
                     !.successMessage = Null, !.isSaving = FALSE]
  /\ cfg_calls' = RemoveAt(cfg_calls, i)
  /\ ev' = [type |-> "mutationFailed", kind |-> "create", before |-> cfg_cache]
  /\ UNCHANGED << cfg_backend, cfg_cache, cfg_open, cfg_timers, cfg_activated, cfg_left >>
  /\ UNCHANGED OtherVars

\* handleConfigAction(id, shouldDelete) up to its await, lines 145-152; the
\* buttons exist for the configurations on display, "Use" for the inactive
\* ones, and are disabled while isLoading
HandleConfigAction(id, shouldDelete) ==
  /\ cfg_open /\ ~cfg_panel.isLoading
  /\ id \in cfg_panel.configs.ids
  /\ shouldDelete \/ id # cfg_panel.configs.active
  /\ cfg_left > 0
  /\ cfg_left' = cfg_left - 1
  /\ cfg_panel' = [cfg_panel EXCEPT !.isLoading = TRUE]
  /\ cfg_calls' = Append(cfg_calls,
                    CfgCall(IF shouldDelete THEN "delete" ELSE "activate", id, ""))
  /\ ev' = [type |-> "action", id |-> id, shouldDelete |-> shouldDelete]
  /\ UNCHANGED << cfg_backend, cfg_cache, cfg_open, cfg_timers, cfg_activated >>
  /\ UNCHANGED OtherVars

\* what the backend does with a delete or an activate of a stored configuration
BackendApply(be, c) ==
  IF c.kind = "delete"
    THEN [ids |-> be.ids \ {c.id},
          active |-> IF be.active = c.id THEN None ELSE be.active]
    ELSE [be EXCEPT !.active = c.id]

\* the PUT / DELETE answers 2xx: activateConfiguration invalidates the status
\* entry (line 141) and the handler schedules onClose (line 154); then
\* fetchConfigs, lines 157-163
ActionOk(i) ==
  /\ i \in 1..Len(cfg_calls) /\ cfg_calls[i].kind \in {"activate", "delete"}
  /\ cfg_calls[i].id \in cfg_backend.ids
  /\ LET c == cfg_calls[i]
         cache == IF c.kind = "activate"
                    THEN InvalidateCache(cfg_cache, StatusPath) ELSE cfg_cache
         f == FetchConfigs(cfg_panel, cache) IN
     /\ cfg_backend' = BackendApply(cfg_backend, c)
     /\ cfg_cache' = cache
     /\ cfg_activated' = (cfg_activated \/ c.kind = "activate")
     /\ cfg_timers' = IF c.kind = "activate" THEN cfg_timers \cup {"close"} ELSE cfg_timers
     /\ IF f.served = "cache"
          THEN /\ cfg_panel' = Continue(f.st, "action")
               /\ cfg_calls' = RemoveAt(cfg_calls, i)
          ELSE /\ cfg_panel' = f.st
               /\ cfg_calls' = Append(RemoveAt(cfg_calls, i), CfgCall("list", None, "action"))
     /\ ev' = [type |-> "mutated", kind |-> c.kind, served |-> f.served,
               before |-> cfg_cache]
  /\ UNCHANGED << cfg_open, cfg_left >>
  /\ UNCHANGED OtherVars

\* the PUT / DELETE fails: catch and finally of handleConfigAction
ActionFail(i, err) ==
  /\ i \in 1..Len(cfg_calls) /\ cfg_calls[i].kind \in {"activate", "delete"}
  /\ cfg_panel' = [cfg_panel EXCEPT !.error = ErrMessage(err, "Action failed"),
                                    !.isLoading = FALSE]
  /\ cfg_calls' = RemoveAt(cfg_calls, i)
  /\ ev' = [type |-> "mutationFailed", kind |-> cfg_calls[i].kind, before |-> cfg_cache]
  /\ UNCHANGED << cfg_backend, cfg_cache, cfg_open, cfg_timers, cfg_activated, cfg_left >>
  /\ UNCHANGED OtherVars

\* the GET of the list answers 2xx: request() caches the body, fetchConfigs
\* shows it (lines 51-52, 57) and the awaiting handler goes on
ListOk(i) ==
  /\ i \in 1..Len(cfg_calls) /\ cfg_calls[i].kind = "list"
  /\ cfg_cache' = [cfg_cache EXCEPT ![ConfigKey] =
                     [present |-> TRUE, age |-> 0, data |-> << ConfigsBody(cfg_backend) >>]]
  /\ cfg_panel' = Continue([cfg_panel EXCEPT !.configs = ConfigsBody(cfg_backend),
                                             !.error = Null, !.isLoading = FALSE],
                           cfg_calls[i].after)
  /\ cfg_timers' = cfg_timers \cup TimersAfter(cfg_calls[i].after)
  /\ cfg_calls' = RemoveAt(cfg_calls, i)
  /\ ev' = [type |-> "listOk", after |-> cfg_calls[i].after]
  /\ UNCHANGED << cfg_backend, cfg_open, cfg_activated, cfg_left >>
  /\ UNCHANGED OtherVars

\* the GET of the list fails: fetchConfigs records the message (lines 53-57)
\* and resolves; the awaiting handler goes on
ListFail(i, err) ==
  /\ i \in 1..Len(cfg_calls) /\ cfg_calls[i].kind = "list"
  /\ cfg_panel' = Continue([cfg_panel EXCEPT
                              !.error = ErrMessage(err, "Failed to fetch configurations"),
                              !.isLoading = FALSE],
                           cfg_calls[i].after)
  /\ cfg_timers' = cfg_timers \cup TimersAfter(cfg_calls[i].after)
  /\ cfg_calls' = RemoveAt(cfg_calls, i)
  /\ ev' = [type |-> "listFailed", after |-> cfg_calls[i].after]
  /\ UNCHANGED << cfg_backend, cfg_cache, cfg_open, cfg_activated, cfg_left >>
  /\ UNCHANGED OtherVars

\* getConnectionStatus(), lines 120-122, called by the connection monitor
GetConnectionStatus ==
  /\ cfg_left > 0
  /\ cfg_left' = cfg_left - 1
  /\ cfg_calls' = IF CacheFresh(cfg_cache[StatusKey])
                    THEN cfg_calls
                    ELSE Append(cfg_calls, CfgCall("status", None, ""))
  /\ cfg_activated' = FALSE
  /\ ev' = [type |-> "status", afterActivate |-> cfg_activated,
            served |-> IF CacheFresh(cfg_cache[StatusKey]) THEN "cache" ELSE "network"]
  /\ UNCHANGED << cfg_backend, cfg_cache, cfg_panel, cfg_open, cfg_timers >>
  /\ UNCHANGED OtherVars

\* the GET of the status answers 2xx: request() caches the body
StatusOk(i) ==
  /\ i \in 1..Len(cfg_calls) /\ cfg_calls[i].kind = "status"
  /\ cfg_cache' = [cfg_cache EXCEPT ![StatusKey] =
                     [present |-> TRUE, age |-> 0, data |-> << StatusBody(cfg_backend) >>]]
  /\ cfg_calls' = RemoveAt(cfg_calls, i)
  /\ ev' = [type |-> "statusOk"]
  /\ UNCHANGED << cfg_backend, cfg_panel, cfg_open, cfg_timers, cfg_activated, cfg_left >>
  /\ UNCHANGED OtherVars

\* the GET of the status fails: nothing is cached
StatusFail(i) ==
  /\ i \in 1..Len(cfg_calls) /\ cfg_calls[i].kind = "status"
  /\ cfg_calls' = RemoveAt(cfg_calls, i)
  /\ ev' = [type |-> "statusFailed"]
  /\ UNCHANGED << cfg_backend, cfg_cache, cfg_panel, cfg_open, cfg_timers,
                  cfg_activated, cfg_left >>
  /\ UNCHANGED OtherVars

\* setTimeout(() => setSuccessMessage(null), 3000) and setTimeout(onClose, 500)
CfgTimerFire(t) ==
  /\ t \in cfg_timers
  /\ cfg_timers' = cfg_timers \ {t}
  /\ IF t = "hide"
       THEN /\ cfg_panel' = [cfg_panel EXCEPT !.successMessage = Null]
            /\ UNCHANGED cfg_open
       ELSE /\ cfg_open' = FALSE
            /\ UNCHANGED cfg_panel
  /\ ev' = [type |-> "cfgTimer", timer |-> t]
  /\ UNCHANGED << cfg_backend, cfg_cache, cfg_calls, cfg_activated, cfg_left >>
  /\ UNCHANGED OtherVars

\* Date.now() moves on: the cache entries grow older
CfgTick ==
  /\ cfg_cache' = [k \in CfgKeys |->
        IF cfg_cache[k].present
          THEN [cfg_cache[k] EXCEPT !.age = Min(@ + ApiStep, cacheTTL)]
          ELSE cfg_cache[k]]
  /\ cfg_cache' # cfg_cache
  /\ ev' = [type |-> "tick"]
  /\ UNCHANGED << cfg_backend, cfg_calls, cfg_panel, cfg_open, cfg_timers,
                  cfg_activated, cfg_left >>
  /\ UNCHANGED OtherVars

\* the panel has just been mounted: fetchConfigs() of the mount effect (lines
\* 43-45) is awaiting its GET
InitCfg ==
  /\ ConnInit /\ ClipsIdle /\ CtlIdle /\ ApiUnused /\ AuthIdle
  /\ cfg_backend \in Backends
  /\ cfg_backend.active \in cfg_backend.ids \cup {None}
  /\ cfg_cache = [k \in CfgKeys |-> NoEntry]
  /\ cfg_calls = << CfgCall("list", None, "mount") >>
  /\ cfg_panel = FetchConfigs(PanelInit, [k \in CfgKeys |-> NoEntry]).st
  /\ cfg_open = TRUE
  /\ cfg_timers = {}
  /\ cfg_activated = FALSE
  /\ cfg_left = MaxOps
  /\ ev = [type |-> "mount"]

NextCfg ==
  \/ \E valid \in BOOLEAN : HandleCreateConfig(valid)
  \/ \E i \in 1..Len(cfg_calls), a \in BOOLEAN : CreateOk(i, a)
  \/ \E i \in 1..Len(cfg_calls), e \in ApiErrors : CreateFail(i, e)
  \/ \E id \in ConfigIds, d \in BOOLEAN : HandleConfigAction(id, d)
  \/ \E i \in 1..Len(cfg_calls) : ActionOk(i)
  \/ \E i \in 1..Len(cfg_calls), e \in ApiErrors : ActionFail(i, e)
  \/ \E i \in 1..Len(cfg_calls) : ListOk(i)
  \/ \E i \in 1..Len(cfg_calls), e \in ApiErrors : ListFail(i, e)
  \/ GetConnectionStatus
  \/ \E i \in 1..Len(cfg_calls) : StatusOk(i)
  \/ \E i \in 1..Len(cfg_calls) : StatusFail(i)
  \/ \E t \in {"hide", "close"} : CfgTimerFire(t)
  \/ CfgTick

SpecCfg == InitCfg /\ [][NextCfg]_vars

\* ------------------------------------------------------------------------
\* AuthContext: login, register, logout, refreshUser; getAuthHeaders
\* ------------------------------------------------------------------------
Tokens == 1..MaxTokens

\* what the backend reports of a user in data.user and in /api/auth/me
Users == {"free", "pro"}

\* the messages login and register throw
AuthErrors ==
  { "Unable to connect to server. Please check your connection.",
    "Invalid email or password" }

\* setStoredAuth(tokens, user), lines 51-53
setStoredAuth(tokens, user) == << [token |-> tokens, user |-> user] >>

\* clearStoredAuth(), lines 55-57
clearStoredAuth == << >>

\* getAuthToken() of the API client: the access token persisted, or null
getAuthToken(stored) == IF stored = << >> THEN None ELSE stored[1].token

\* a request of /api/auth awaiting fetch(); tokens is the tokens state its
\* callback closed over
AuthCall(kind, tokens) == [kind |-> kind, tokens |-> tokens]

OtherThanAuth ==
  << connVars, clipVars, ctlVars, api_calls, api_last, api_stored, api_left, cfgVars >>

\* login(email, password) and register(email, password, name) up to their
\* fetch, lines 99-109 and 150-160
Submit(kind) ==
  /\ auth_left > 0
  /\ auth_left' = auth_left - 1
  /\ auth_isLoading' = TRUE
  /\ auth_error' = Null
  /\ auth_calls' = Append(auth_calls, AuthCall(kind, None))
  /\ ev' = [type |-> "submit", kind |-> kind, bearer |-> None]
  /\ UNCHANGED << auth_user, auth_tokens, auth_stored, auth_issued, auth_loggedOut >>
  /\ UNCHANGED OtherThanAuth

\* the backend answers 2xx with new tokens: lines 135-143 and 185-192, and the
\* finally
SubmitOk(i, user) ==
  /\ auth_calls[i].kind \in {"login", "register"}
  /\ auth_issued < MaxTokens
  /\ auth_issued' = auth_issued + 1
  /\ auth_tokens' = auth_issued + 1
  /\ auth_user' = user
  /\ auth_stored' = setStoredAuth(auth_issued + 1, user)
  /\ auth_isLoading' = FALSE
  /\ auth_loggedOut' = FALSE
  /\ auth_calls' = RemoveAt(auth_calls, i)
  /\ ev' = [type |-> "submitOk", kind |-> auth_calls[i].kind, bearer |-> None]
  /\ UNCHANGED << auth_error, auth_left >>
  /\ UNCHANGED OtherThanAuth

\* fetch rejects or the backend refuses: the catch and the finally, lines
\* 144-148 and 193-198
SubmitFail(i, message) ==
  /\ auth_calls[i].kind \in {"login", "register"}
  /\ auth_error' = message
  /\ auth_isLoading' = FALSE
  /\ auth_calls' = RemoveAt(auth_calls, i)
  /\ ev' = [type |-> "submitFailed", kind |-> auth_calls[i].kind, bearer |-> None]
  /\ UNCHANGED << auth_user, auth_tokens, auth_stored, auth_issued, auth_loggedOut,
                  auth_left >>
  /\ UNCHANGED OtherThanAuth

\* logout(), lines 77-81
Logout ==
  /\ auth_left > 0
  /\ auth_left' = auth_left - 1
  /\ auth_user' = Null
  /\ auth_tokens' = None
  /\ auth_stored' = clearStoredAuth
  /\ auth_loggedOut' = TRUE
  /\ ev' = [type |-> "logout", kind |-> "logout", bearer |-> None]
  /\ UNCHANGED << auth_isLoading, auth_error, auth_calls, auth_issued >>
  /\ UNCHANGED OtherThanAuth

\* refreshUser() up to its fetch, lines 83-89: nothing without tokens
RefreshUser ==
  /\ auth_left > 0
  /\ auth_left' = auth_left - 1
  /\ auth_calls' =
       IF auth_tokens = None THEN auth_calls
       ELSE Append(auth_calls, AuthCall("refresh", auth_tokens))
  /\ ev' = [type |-> "refreshUser", kind |-> "refresh", bearer |-> auth_tokens]
  /\ UNCHANGED << auth_user, auth_tokens, auth_isLoading, auth_error, auth_stored,
                  auth_issued, auth_loggedOut >>
  /\ UNCHANGED OtherThanAuth

\* /api/auth/me answers 2xx: lines 90-94, with the tokens the callback closed
\* over
RefreshOk(i, user) ==
  /\ auth_calls[i].kind = "refresh"
  /\ auth_user' = user
  /\ auth_stored' = setStoredAuth(auth_calls[i].tokens, user)
  /\ auth_calls' = RemoveAt(auth_calls, i)
  /\ ev' = [type |-> "refreshOk", kind |-> "refresh", bearer |-> auth_calls[i].tokens]
  /\ UNCHANGED << auth_tokens, auth_isLoading, auth_error, auth_issued,
                  auth_loggedOut, auth_left >>
  /\ UNCHANGED OtherThanAuth

\* /api/auth/me answers non-2xx or fetch rejects: nothing but the log, lines
\* 90 and 95-97
RefreshFail(i) ==
  /\ auth_calls[i].kind = "refresh"
  /\ auth_calls' = RemoveAt(auth_calls, i)
  /\ ev' = [type |-> "refreshFailed", kind |-> "refresh", bearer |-> auth_calls[i].tokens]
  /\ UNCHANGED << auth_user, auth_tokens, auth_isLoading, auth_error, auth_stored,
                  auth_issued, auth_loggedOut, auth_left >>
  /\ UNCHANGED OtherThanAuth

\* the API client issues a request: getAuthHeaders(), lines 56-59, gives it
\* the bearer token persisted at that moment
ApiRequest ==
  /\ auth_left > 0
  /\ auth_left' = auth_left - 1
  /\ ev' = [type |-> "apiRequest", kind |-> "api", bearer |-> getAuthToken(auth_stored)]
  /\ UNCHANGED << auth_user, auth_tokens, auth_isLoading, auth_error, auth_stored,
                  auth_calls, auth_issued, auth_loggedOut >>
  /\ UNCHANGED OtherThanAuth

\* AuthProvider after its mount effect (lines 66-73): the persisted session,
\* if there is one, loaded into the state
InitAuth ==
  /\ ConnInit /\ ClipsIdle /\ CtlIdle /\ ApiUnused /\ CfgIdle
  /\ auth_issued \in 0..1
  /\ auth_stored \in {clearStoredAuth} \cup
       { setStoredAuth(auth_issued, u) : u \in IF auth_issued = 0 THEN {} ELSE Users }
  /\ auth_tokens = getAuthToken(auth_stored)
  /\ auth_user = IF auth_stored = << >> THEN Null ELSE auth_stored[1].user
  /\ auth_isLoading = FALSE
  /\ auth_error = Null
  /\ auth_calls = << >>
  /\ auth_loggedOut = FALSE
  /\ auth_left = MaxOps
  /\ ev = [type |-> "mount", kind |-> "mount", bearer |-> None]

NextAuth ==
  \/ \E kind \in {"login", "register"} : Submit(kind)
  \/ \E i \in 1..Len(auth_calls), u \in Users : SubmitOk(i, u)
  \/ \E i \in 1..Len(auth_calls), m \in AuthErrors : SubmitFail(i, m)
  \/ Logout
  \/ RefreshUser
  \/ \E i \in 1..Len(auth_calls), u \in Users : RefreshOk(i, u)
  \/ \E i \in 1..Len(auth_calls) : RefreshFail(i)
  \/ ApiRequest

SpecAuth == InitAuth /\ [][NextAuth]_vars


\* ------------------------------------------------------------------------
\* Properties of the API client
\* ------------------------------------------------------------------------
\* C17 (as claimed): a GET of an endpoint made less than 1000 ms after a GET
\* of the same endpoint that went to the network, that one still in flight
\* included, makes no second network call.
C17_OneNetworkCall ==
  (ev.type = "get" /\ ev.prev.called /\ ev.prev.net /\ ev.prev.since < cacheTTL)
    => ev.served = "cache"

\* C18: a GET is served from the cache only by an entry less than 1000 ms
\* old, and then with the payload of the latest successful network GET of that
\* endpoint; with an entry 1000 ms old or older, or none, it goes to the network.
C18_CacheTtl ==
  ev.type = "get"
    => /\ ev.served = "cache"
            => /\ requestCache[ev.key].present
               /\ requestCache[ev.key].age < 1000
               /\ ev.data = api_stored[ev.key]
       /\ (~requestCache[ev.key].present \/ requestCache[ev.key].age >= 1000)
            => (ev.served = "network" /\ api_calls # << >>
                /\ api_calls[Len(api_calls)] = ApiCall("get", ev.key, "", 0))

\* a GET that finds an entry exactly 1000 ms old and goes to the network
C18_Witness ==
  /\ ev.type = "get" /\ ev.served = "network"
  /\ requestCache[ev.key].present /\ requestCache[ev.key].age = 1000
  /\ api_stored[ev.key] = << requestCache[ev.key].data >>

\* C32: a non-2xx answer makes request() throw a ResolumeApiError carrying
\* the status code of the answer and the endpoint of the call, and the request
\* cache is what it was before the answer: no entry stored, none removed.
C32_NonOkRaisesTypedError ==
  ev.type \in {"getFailed", "writeFailed"}
    => /\ ev.err.isError /\ ev.err.name = "ResolumeApiError"
       /\ ev.err.statusCode = ev.status
       /\ ev.err.endpoint = EndpointOf(ev.call)
       /\ ev.err.message = StatusLine(ev.status)
       /\ requestCache = ev.cache

\* a GET of a layer whose cache entry has expired is answered with 404 and
\* the entry is still there
C32_Witness ==
  /\ ev.type = "getFailed" /\ ev.status = 404
  /\ requestCache[ev.key].present
  /\ ev.err.endpoint.layer = ev.key

\* the ranges of the three parameter writes
InRange(c, w) ==
  IF c = "bpm" THEN 20 <= w /\ w <= 999
               ELSE Fixed(0, 1) <= w /\ w <= Fixed(1, 1)

\* C19: a parameter write with a value outside its range raises a validation
\* error and makes no network call; with a value inside the range, the
\* boundaries included, it makes exactly one network call.
C19_ValidationFirst ==
  [][ ev'.type = "apiWrite"
        => IF InRange(ev'.ctl, ev'.value)
             THEN /\ ev'.sent /\ ~ev'.thrown.isError
                  /\ api_calls' = Append(api_calls, ApiCall("write", 0, ev'.ctl, ev'.value))
             ELSE /\ ~ev'.sent /\ ev'.thrown.isError
                  /\ api_calls' = api_calls ]_vars

\* setBpm(999) goes out while setBpm(1000) before it was rejected
C19_Witness ==
  /\ ev.type = "apiWrite" /\ ev.ctl = "bpm" /\ ev.value = 999 /\ ev.sent
  /\ api_calls = << ApiCall("write", 0, "bpm", 999) >>
  /\ api_left < MaxOps - 1

\* C26 (as claimed): a successful create, activate or delete in the settings
\* panel is followed by a GET of the configuration list that reaches the
\* backend; the list on display is never one cached before the mutation.
C26_RefetchFromBackend ==
  ev.type = "mutated"
    => \/ /\ ev.served = "network"
          /\ cfg_calls # << >> /\ cfg_calls[Len(cfg_calls)].kind = "list"
       \/ cfg_panel.configs = ConfigsBody(cfg_backend)

\* C27 (as claimed): a successful activateConfiguration removes exactly the
\* cache entries whose key contains the status path, a failed one removes
\* none, and the first getConnectionStatus call after a successful activation
\* goes to the network.
C27_ActivationInvalidatesStatus ==
  /\ (ev.type = "mutated" /\ ev.kind = "activate")
       => /\ ~cfg_cache[StatusKey].present
          /\ cfg_cache[ConfigKey] = ev.before[ConfigKey]
  /\ ev.type = "mutationFailed" => cfg_cache = ev.before
  /\ (ev.type = "status" /\ ev.afterActivate) => ev.served = "network"

\* ------------------------------------------------------------------------
\* Properties of the parameter controller
\* ------------------------------------------------------------------------
\* the last call of the calls of control c that came less than 150 ms apart
LastCall(c) == ctl_burst[c][Len(ctl_burst[c])]

\* what that call has to put on the wire
LastWrite(c) ==
  [ctl |-> c, value |-> Wire(c, LastCall(c).value),
   layer |-> LastCall(c).layer, clip |-> LastCall(c).clip]

\* C1 (as claimed): calls of a setter that follow each other by less than
\* 150 ms, with none in the 150 ms after the last, give exactly one network
\* write, carrying the value of the last call; nothing is written before
\* (read for a hook that stays mounted).
C1_ExactlyOneWrite ==
  \A c \in Controls :
    (ctl_isMounted /\ ctl_burst[c] # << >>)
      => IF Pending(c) THEN ctl_log[c] = << >>
                       ELSE ctl_log[c] = << LastWrite(c) >>

\* C1 (amended): nothing is written while the debounce timer of the control
\* is pending; once the 150 ms after the last call have elapsed with the hook
\* still mounted, exactly one write was sent, carrying the value (and the layer
\* and clip) of the last call, if that value passes the range check of the
\* API client, and no write at all if it does not; after an unmount at most
\* that one write was sent.
C1_OneWriteOfLastValue ==
  \A c \in Controls :
    ctl_burst[c] # << >>
      => IF Pending(c) \/ ClientCheck(c, LastWrite(c).value).isError
           THEN ctl_log[c] = << >>
           ELSE IF ctl_isMounted
                  THEN ctl_log[c] = << LastWrite(c) >>
                  ELSE ctl_log[c] \in { << >>, << LastWrite(c) >> }

\* two calls of setOpacity within the window, the second one committed
C1_Witness ==
  /\ ev.type = "commit" /\ ev.ctl = "opacity" /\ ctl_isMounted
  /\ Len(ctl_burst["opacity"]) = 2
  /\ ctl_burst["opacity"][1].value # ctl_burst["opacity"][2].value
  /\ ctl_log["opacity"] = << LastWrite("opacity") >>
  /\ ctl_writes = << LastWrite("opacity") >>
  /\ opacity = 57 /\ LastWrite("opacity").value = Fixed(57, 100)

\* the state of the controller an observer sees
CtlState == << bpm, opacity, scrubPosition, isBpmLoading, isOpacityLoading,
               isScrubbing, ctl_error >>

\* C14 (as claimed): after the unmount of the parameter controller its values,
\* its three loading flags and its error never change again, whatever write
\* or read completes or fails afterwards.
C14_NoUpdateAfterUnmount ==
  [][ ~ctl_isMounted => CtlState' = CtlState ]_vars

\* C16: the teardown of the parameter controller cancels every pending
\* debounce timer: once unmounted no timer is left and no commit runs, so a
\* call whose 150 ms had not elapsed at unmount never reaches the network.
C16_TeardownCancelsTimers ==
  ~ctl_isMounted => (ctl_timers = {} /\ ev.type # "commit")

\* an unmount with the timers of setBpm and setOpacity pending, both valid
C16_Witness ==
  /\ ev.type = "ctlUnmount" /\ ctl_timers = {} /\ ctl_writes = << >>
  /\ ctl_burst["bpm"] # << >> /\ ctl_log["bpm"] = << >> /\ bpm = 20
  /\ ctl_burst["opacity"] # << >> /\ ctl_log["opacity"] = << >> /\ opacity = 57

\* C22 (as claimed): a clip-position write is sent by a commit only if, when
\* the commit runs, the controller is connected and has an active clip id and
\* an active clip index.
C22_ScrubGatedAtCommit ==
  (ev.type = "commit" /\ ev.ctl = "scrub" /\ ctl_log["scrub"] # << >>)
    => ScrubGate(ctl_props)

\* C29 (as claimed): when the write of a debounced commit fails, the
\* parameter controller issues a read of the server's values.
C29_FailedCommitRefetches ==
  ev.type = "writeFail" => Len(ctl_reads) > ev.reads

\* C30 (as claimed): the backend never applies a write of a control after it
\* has applied a write of that control that was issued later with a newer
\* value.
C30_LastValueWins ==
  ev.type = "writeOk" => ~ev.late

\* C34: for every opacity p of 0..100 the value handed to setLayerOpacity is
\* p / 100, which lies in [0, 1] and passes the range check of the client; a
\* commit of such a p by setOpacity sends the write with that value.
C34_OpacityWire ==
  /\ \A p \in UiOpacities :
       /\ Wire("opacity", p) = Fixed(p, 100)
       /\ Fixed(0, 1) <= Wire("opacity", p) /\ Wire("opacity", p) <= Fixed(1, 1)
       /\ ~ClientCheck("opacity", Wire("opacity", p)).isError
  /\ (ev.type = "commit" /\ ev.ctl = "opacity"
        /\ LastCall("opacity").value \in UiOpacities)
       => /\ ctl_writes # << >>
          /\ ctl_writes[Len(ctl_writes)].ctl = "opacity"
          /\ ctl_writes[Len(ctl_writes)].value = Fixed(LastCall("opacity").value, 100)
          /\ isOpacityLoading

\* setOpacity(57) has been committed: the write in flight carries 0.57
C34_Witness ==
  /\ ev.type = "commit" /\ ev.ctl = "opacity"
  /\ LastCall("opacity").value = 57
  /\ ctl_writes # << >>
  /\ ctl_writes[Len(ctl_writes)].value = Fixed(57, 100)
  /\ opacity = 57

\* the loading flag the hook returns for a control
Loading(c) ==
  CASE c = "bpm" -> isBpmLoading
    [] c = "opacity" -> isOpacityLoading
    [] OTHER -> isScrubbing

\* the last step was a debounced commit that failed: its write was answered
\* with an error, or the range check of the API client threw
FailedCommit ==
  \/ ev.type = "writeFail"
  \/ ev.type = "commit" /\ ev.thrown.isError

\* what a failed commit leaves behind in a mounted hook
FailedCommitState ==
  (FailedCommit /\ ctl_isMounted)
    => /\ ctl_error = ErrMessage(ev.thrown, Fallback(ev.ctl))
       /\ ~Loading(ev.ctl)
       /\ << bpm, opacity, scrubPosition >> = ev.vals

\* C36 (as claimed): a failed commit of a mounted hook records the message of
\* the failure, sets the loading flag of the control to false and keeps the
\* local values; every call of a setter leaves the error cleared.
C36_AnySetterClearsError ==
  /\ FailedCommitState
  /\ ev.type \in {"set", "scrubIgnored"} => ctl_error = Null

\* C36 (amended): a failed commit of a mounted hook records the message of
\* the failure, sets the loading flag of the control to false and keeps the
\* local values; a call of setBpm or setOpacity, or of setScrubPosition while
\* connected with an active clip, clears the error, and a call of
\* setScrubPosition without them leaves the error as it is.
C36_AcceptedSetterClearsError ==
  /\ [](FailedCommitState /\ (ev.type = "set" => ctl_error = Null))
  /\ [][ev'.type = "scrubIgnored" => ctl_error' = ctl_error]_vars

\* the write of setBpm(999) has failed: message recorded, flag down, 999 kept
C36_Witness ==
  /\ ev.type = "writeFail" /\ ev.ctl = "bpm" /\ ctl_isMounted
  /\ ctl_error = "HTTP 500: Internal Server Error"
  /\ ~isBpmLoading /\ bpm = 999

\* C31 (as claimed): while the parameter controller is mounted, the loading
\* flag of a control is true exactly when a write of that control is in
\* flight.
C31_LoadingIffInFlight ==
  ctl_isMounted
    => \A c \in Controls :
         Loading(c) <=> (\E i \in 1..Len(ctl_writes) : ctl_writes[i].ctl = c)

\* ------------------------------------------------------------------------
\* Properties of the connection monitor
\* ------------------------------------------------------------------------
ConnCompleted == ev.type \in {"checkOk", "checkFail"}

\* C6 (as claimed): from a fresh mount, while every completed check has
\* failed, the first three delays handed to setTimeout are 2000, 3000 and
\* 4500 ms; and a check of the chain that comes back connected schedules the
\* next check after 5000 ms.
C6_ClaimedDelay(k) ==
  CASE k = 1 -> Ms(2000)
    [] k = 2 -> Ms(3000)
    [] k = 3 -> Ms(4500)

C6_DelaysAsClaimed ==
  /\ ( /\ conn_isMounted /\ ~conn_retried /\ conn_onlyFailed
       /\ conn_timer.state = "pending" /\ conn_nsched <= 3 )
     => conn_timer.delay = C6_ClaimedDelay(conn_nsched)
  /\ ( /\ conn_isMounted /\ ev.type = "checkOk" /\ ev.origin = "timer"
       /\ ev.status.connected )
     => conn_timer = [state |-> "pending", delay |-> Ms(5000)]

\* C7 (as claimed): a status check that returns without error while the
\* monitor is mounted records connected = true and resets the interval to
\* 5000 ms.
C7_SuccessMeansConnected ==
  (ev.type = "checkOk" /\ conn_isMounted)
    => (conn_isConnected = TRUE /\ pollingInterval = Ms(5000))

\* C7 (amended): a status check that returns without error while mounted
\* exposes the returned snapshot, records isConnected = the snapshot's
\* connected flag and clears the error; the interval becomes 5000 ms when the
\* flag is true and is left as it was when the flag is false.
C7_SuccessRecordsStatus ==
  [][ (ev'.type = "checkOk" /\ conn_isMounted)
        => /\ conn_status' = << ev'.status >>
           /\ conn_isConnected' = ev'.status.connected
           /\ conn_error' = Null
           /\ conn_isLoading' = FALSE
           /\ ev'.status.connected => pollingInterval' = Ms(5000)
           /\ ~ev'.status.connected => pollingInterval' = pollingInterval ]_vars

\* a reachable status that came back with connected = false after backoff
C7_Witness ==
  /\ ev.type = "checkOk" /\ conn_isMounted
  /\ ~ev.status.connected /\ ~conn_isConnected
  /\ pollingInterval = Ms(4500)

\* C8: a status check that fails while mounted makes isConnected false, error
\* the failure's message and the interval min(1.5 x previous, 30000 ms).
C8_FailureBacksOff ==
  [][ (ev'.type = "checkFail" /\ conn_isMounted)
        => /\ conn_isConnected' = FALSE
           /\ conn_error' = ev'.err.message
           /\ 2 * pollingInterval' = Min(3 * pollingInterval, 2 * Ms(30000)) ]_vars

\* a failure at the ceiling, with its message recorded
C8_Witness ==
  /\ ev.type = "checkFail" /\ conn_isMounted
  /\ pollingInterval = Ms(30000)
  /\ conn_error = "Failed to fetch"

C10_RetryResets ==
  /\ [][ ev'.type = "retry"
           => /\ pollingInterval' = Ms(2000)
              /\ conn_timer'.state # "pending"
              /\ conn_timer.state = "pending" => conn_timer'.state = "cleared"
              /\ InFlightTotal(conn_inflight') = InFlightTotal(conn_inflight) + 1 ]_vars
  /\ [][ conn_timer.state = "cleared" => conn_timer'.state # "fired" ]_vars

\* a retry that cancelled the pending timer of a backed-off chain
C10_Witness ==
  /\ ev.type = "retry" /\ conn_timer.state = "cleared"
  /\ conn_timer.delay = Ms(6750) /\ pollingInterval = Ms(2000)

\* C11 (as claimed): once the check started by retryConnection has completed
\* on a mounted monitor, polling goes on: a next check is scheduled or a check
\* is still in flight.
C11_RetryKeepsPolling ==
  (ConnCompleted /\ ev.origin = "retry" /\ conn_isMounted)
    => (conn_timer.state = "pending" \/ InFlightTotal(conn_inflight) > 0)

\* the state of the monitor an observer sees
ConnState == << conn_isConnected, conn_status, conn_isLoading, conn_error >>

\* C12: after the teardown of the connection monitor isConnected,
\* connectionStatus, isLoading and error never change again, whatever status
\* request completes or fails afterwards.
C12_NoUpdateAfterTeardown ==
  [][ ~conn_isMounted => ConnState' = ConnState ]_vars

\* a status request that was in flight at teardown has failed afterwards,
\* and the state still shows the monitor as it was
C12_Witness ==
  /\ ~conn_isMounted /\ ev.type = "checkFail"
  /\ conn_isLoading /\ conn_error = Null /\ conn_status = << >>

\* C15 (as claimed): after the teardown of the connection monitor no
\* scheduled check is pending and no timer callback issues a status request.
C15_NoPollingAfterTeardown ==
  ~conn_isMounted => (conn_timer.state # "pending" /\ ev.type # "timerFire")

\* C35: in every reachable state of the connection monitor the poll interval
\* lies between the initial interval 2000 ms and the ceiling 30000 ms.
C35_IntervalWithinLimits ==
  /\ Ms(2000) <= pollingInterval
  /\ pollingInterval <= Ms(30000)

\* the backoff has reached the ceiling
C35_Witness ==
  /\ ev.type = "checkFail" /\ conn_isMounted
  /\ pollingInterval = Ms(MAX_INTERVAL)

\* C33 (as claimed): the exposed snapshot is the one of the latest completed
\* check, so no snapshot saying connected = true is exposed while isConnected
\* is false.
C33_SnapshotReplaced ==
  (~conn_isConnected /\ conn_status # << >>) => ~conn_status[1].connected

\* ------------------------------------------------------------------------
\* Properties of the clip reconciler
\* ------------------------------------------------------------------------
\* C2 (as claimed): triggerClip(k) sets activeClipIndex and selectedClipIndex
\* to k, and activeClipId to the id of the cached clip at k if there is one,
\* while the connect call is still in flight.
C2_TriggerSetsIndex ==
  ev.type = "trigger"
    => /\ TriggerRequest(ev.layer, ev.k) \in requests
       /\ activeClipIndex = ev.k
       /\ selectedClipIndex = ev.k
       /\ ev.k <= Len(clips) => activeClipId = clips[ev.k].id

\* C2 (amended): with a clip cached at position k, triggerClip(k) sets the
\* active id, the active index and the selection to that clip before the
\* connect call resolves; with no clip cached at k it leaves all three as they
\* were and still issues the connect call.
C2_TriggerOptimistic ==
  [][ ev'.type = "trigger"
        => /\ TriggerRequest(layerIndex, ev'.k) \in requests'
           /\ clips' = clips
           /\ IF ev'.k <= Len(clips)
                THEN /\ activeClipIndex' = ev'.k
                     /\ selectedClipIndex' = ev'.k
                     /\ activeClipId' = clips[ev'.k].id
                ELSE UNCHANGED << activeClipId, activeClipIndex, selectedClipIndex >>
    ]_vars

\* an optimistic trigger ahead of the engine, and one of an empty slot
C2_Witness ==
  /\ ev.type = "trigger" /\ TriggerRequest(layerIndex, ev.k) \in requests
  /\ ev.k <= Len(clips) /\ activeClipIndex = ev.k /\ activeClipId = clips[ev.k].id
  /\ ev.k \notin engine[layerIndex]

\* C3 (as claimed): the clip list applied by the delayed refetch of
\* triggerClip / clearLayer was never obtained or cached before the trigger /
\* clear call completed.
C3_DelayedRefetchIsFresh ==
  ev.type = "delayedRefetch" => ~ev.stale

\* C4 (as claimed): after the connect call of triggerClip has settled, with
\* success or with failure, a refetch is scheduled 500 ms later.
C4_DelayedRefetchAlways ==
  (ev.type \in {"opOk", "opFailed"} /\ ev.kind = "trigger")
    => \E t \in delayed : t.layer = ev.layer /\ t.remaining = 500

\* C4 (amended): when the connect call of triggerClip succeeds a refetch of
\* that layer is scheduled 500 ms later; when it fails no delayed refetch is
\* scheduled, only the immediate refetch is made.
C4_DelayedRefetchOnSuccess ==
  [][ /\ (ev'.type = "opOk" /\ ev'.kind = "trigger")
         => \E t \in delayed' : t.layer = ev'.layer /\ t.remaining = 500
      /\ (ev'.type = "opFailed" /\ ev'.kind = "trigger")
         => /\ delayed' = delayed
            /\ ev'.served \in {"cache", "network"}
            /\ ev'.served = "network" => ClipsRequest(ev'.layer) \in requests'
    ]_vars

\* a failed trigger: the immediate refetch is in flight, nothing is scheduled
C4_Witness ==
  /\ ev.type = "opFailed" /\ ev.kind = "trigger"
  /\ delayed = {} /\ ClipsRequest(ev.layer) \in requests

\* C5: when the remote call of triggerClip or clearLayer fails, fetchClips is
\* called at once (the GET goes out unless the request cache answers it) and
\* the operation rejects with the error it received.
C5_FailureRefetchesAndRethrows ==
  ev.type = "opFailed"
    => /\ ev.thrown = ev.err
       /\ ev.served \in {"cache", "network"}
       /\ ev.served = "network" => ClipsRequest(ev.layer) \in requests
       /\ (ev.served = "network" /\ clips_isMounted) => clips_isLoading

\* a failed clearLayer whose refetch is on its way
C5_Witness ==
  /\ ev.type = "opFailed" /\ ev.kind = "clear" /\ ev.thrown = ev.err
  /\ ev.served = "network" /\ ClipsRequest(ev.layer) \in requests
  /\ clips_isLoading

\* C13 (as claimed): after the final unmount of the clip reconciler clips,
\* activeClipId, activeClipIndex, selectedClipIndex, isLoading and error never
\* change again, whatever request completes or fails afterwards.
C13_NoUpdateAfterUnmount ==
  [][ ~clips_isMounted => HookState' = HookState ]_vars

\* a step that applies a clip list: a network response on a mounted hook, or
\* the delayed refetch answered by the cache
AppliesResponse ==
  \/ ev'.type = "fetchOk" /\ clips_isMounted
  \/ ev'.type = "delayedRefetch" /\ ev'.served = "cache"

\* C20: every applied fetch response with a connected clip makes the first
\* connected clip the active one (index and id) and forces the selection to
\* it; a response with no connected clip sets the active id and index to null
\* and leaves the selection as it was.
C20_ActiveClipDerivation ==
  [][ AppliesResponse
        => IF \E i \in 1..Len(clips') : clips'[i].isConnected
             THEN /\ activeClipIndex' \in 1..Len(clips')
                  /\ clips'[activeClipIndex'].isConnected
                  /\ \A j \in 1..(activeClipIndex' - 1) : ~clips'[j].isConnected
                  /\ activeClipId' = clips'[activeClipIndex'].id
                  /\ selectedClipIndex' = activeClipIndex'
             ELSE /\ activeClipId' = None
                  /\ activeClipIndex' = None
                  /\ selectedClipIndex' = selectedClipIndex ]_vars

\* a response with two connected clips: the first one becomes the active one
C20_Witness ==
  /\ ev.type = "fetchOk" /\ clips_isMounted /\ Len(clips) = 2
  /\ clips[1].isConnected /\ clips[2].isConnected
  /\ activeClipIndex = 1 /\ selectedClipIndex = 1 /\ activeClipId = clips[1].id

\* C21 (as claimed): after a change of the layer index selectedClipIndex is
\* null.
C21_LayerChangeClearsSelection ==
  (ev.type = "render" /\ ev.from # layerIndex) => selectedClipIndex = None

\* C21 (amended): a change of the layer index discards the selection; it is
\* null afterwards unless the hook is connected and the request cache answers
\* the clip list of the new layer with a connected clip, which is then selected
\* as the active clip.
C21_LayerChangeResetsSelection ==
  (ev.type = "render" /\ ev.from # layerIndex)
    => \/ selectedClipIndex = None
       \/ /\ isConnected /\ CacheFresh(requestCache[layerIndex])
          /\ clips = requestCache[layerIndex].data
          /\ selectedClipIndex = activeClipIndex
          /\ clips[selectedClipIndex].isConnected

\* a selection made on layer 1 is gone after the change to layer 2, offline
C21_Witness ==
  /\ ev.type = "render" /\ ev.from = 1 /\ layerIndex = 2 /\ ~isConnected
  /\ ev.sel # None /\ selectedClipIndex = None

\* C23 (as claimed): while the isConnected input of the clip reconciler is
\* false its clip list is empty.
C23_EmptyWhileDisconnected ==
  ~isConnected => clips = << >>

\* C24: clearLayer sets activeClipId, activeClipIndex and selectedClipIndex to
\* null while its clear call is in flight, and when that call has succeeded a
\* refetch of the clip list of that layer is scheduled 300 ms later, which
\* calls fetchClips if the hook is mounted then.
C24_ClearLayer ==
  /\ ev.type = "clear"
       => /\ ClearRequest(ev.layer) \in requests
          /\ activeClipId = None /\ activeClipIndex = None
          /\ selectedClipIndex = None
  /\ (ev.type = "opOk" /\ ev.kind = "clear")
       => \E t \in delayed : t.layer = ev.layer /\ t.remaining = 300
  /\ ev.type = "delayedRefetch"
       => /\ clips_isMounted /\ ev.served \in {"cache", "network"}
          /\ ev.served = "network" => ClipsRequest(ev.layer) \in requests
  /\ ev.type = "delayedSkipped" => ~clips_isMounted

\* a clear call has succeeded while the list still shows a playing clip
C24_Witness ==
  /\ ev.type = "opOk" /\ ev.kind = "clear"
  /\ \E t \in delayed : t.layer = ev.layer /\ t.remaining = 300
  /\ activeClipIndex = None /\ selectedClipIndex = None
  /\ \E i \in 1..Len(clips) : clips[i].isConnected

\* C25 (as claimed): when a clip-list fetch fails with HTTP 404 while the hook
\* is mounted, clips is empty, error is the layer-not-found message of the
\* current layer and isLoading is false.
C25_NotFoundForCurrentLayer ==
  (ev.type = "fetchFailed" /\ ev.err.statusCode = 404 /\ clips_isMounted)
    => /\ clips = << >>
       /\ clips_error = LayerNotFound(layerIndex)
       /\ ~clips_isLoading

\* C28 (as claimed): when the remote call of triggerClip or clearLayer fails,
\* the error state of the clip reconciler holds the message of that failure.
C28_OpFailureRecorded ==
  ev.type = "opFailed" => clips_error = ErrMessage(ev.err, "Failed to fetch clips")

\* C37 (as claimed): while the hook is mounted and connected, the answer to a
\* clip fetch is applied only if it was issued for the current layer.
C37_OnlyCurrentLayerApplied ==
  (ev.type = "fetchOk" /\ clips_isMounted /\ isConnected) => ev.layer = layerIndex

\* C38 (as claimed): in every state of the clip reconciler activeClipId is
\* null exactly when activeClipIndex is null, and a non-null activeClipIndex
\* points at an entry of the clip list whose id is activeClipId.
C38_ActiveClipConsistent ==
  /\ (activeClipId = None) <=> (activeClipIndex = None)
  /\ activeClipIndex # None
       => /\ activeClipIndex <= Len(clips)
          /\ clips[activeClipIndex].id = activeClipId

\* C39: triggerClip and clearLayer called while the hook is not connected
\* throw 'Not connected to Resolume', issue no request, schedule no refetch
\* and leave the state of the hook as it was.
C39_RejectedWhenDisconnected ==
  ev.type = "opRejected"
    => /\ ~isConnected
       /\ ev.thrown.isError /\ ev.thrown.message = "Not connected to Resolume"
       /\ requests = ev.requests
       /\ delayed = ev.delayed
       /\ HookState = ev.state

\* clearLayer is rejected after a disconnect that left an active clip behind
C39_Witness ==
  /\ ev.type = "opRejected" /\ ev.op = "clear"
  /\ activeClipIndex # None /\ activeClipId # None
  /\ requests = {} /\ delayed = {}

\* ------------------------------------------------------------------------
\* Properties of the auth context
\* ------------------------------------------------------------------------
\* C40 (as claimed): once logout has run, the persisted auth state stays
\* absent until the next successful login or register, whatever requests were
\* in flight at logout, and no API request issued in between carries a bearer
\* token.
C40_AbsentAfterLogout ==
  auth_loggedOut =>
    /\ auth_stored = << >>
    /\ ev.type = "apiRequest" => ev.bearer = None

====
